---- MODULE Spec2Model ----
(***************************************************************************)
(* Transition engine of the auto-dj workers: cue-point selection and the   *)
(* cue-point safety loop, the draft renderer's reported cut points, the    *)
(* time-stretch of track B, the bass-swap primitive and its validator, the *)
(* vocal-clash resolution and the mix assembler's segment timeline.        *)
(*                                                                         *)
(* Times are whole milliseconds (the sources hold float seconds), sample   *)
(* positions are whole samples at SAMPLE_RATE.  Python's int() truncates   *)
(* toward zero; floating-point rounding error is not modelled.             *)
(***************************************************************************)
EXTENDS Integers, Sequences, FiniteSets, TLC

VARIABLES
    job,            \* the render job's inputs (DraftTransitionParams + plan)
    rpc,            \* position of the renderer: idle/start/loop/extract/done
    a_cue_time,     \* ms, the cue on track A
    a_cue_beat_idx, \* 0-based index of the cue in A's beat list, -1 if none
    cue_hist,       \* history of the cue: first selection, shifts, loop exit
    result,         \* DraftTransitionResult and the positions it consumed
    mix,            \* generate_mix_for_project: tracks, segments, loop index, results
    bass,           \* bass stems of a STEM_BLEND render and their validation
    vocal,          \* vocal analysis of a pair and the mode the render realized
    stretch,        \* a time-stretch request and the ratio handed to rubberband
    render,         \* a render seen from outside: requested mode, faults, realized result
    plan,           \* the planner: pair scores, the LLM's answer, the plan handed on
    sep,            \* the global stem separator and the threads asking for it
    worker,         \* a draft-transition job in the queue worker and its stages
    files,          \* temporary files of a conversion or an MP3 export
    reader,         \* the consumer of a mix job's result: what was published, what it saw
    wheel,          \* a pair of keys and tempos and the compatibility scores computed for it
    setpos          \* a position in the set, its phase, and the transition recommended there

cue_vars == <<job, rpc, a_cue_time, a_cue_beat_idx, cue_hist, result>>

old_vars == <<job, rpc, a_cue_time, a_cue_beat_idx, cue_hist, result, mix, bass, vocal, stretch>>

new_vars == <<wheel, setpos>>

ext_vars == <<render, plan, sep, worker, files, reader, new_vars>>

vars == <<old_vars, ext_vars>>

Idle == [pc |-> "off"]

NewIdle == wheel = Idle /\ setpos = Idle

\* the subsystems a specification does not run stay switched off
ExtIdle ==
    /\ render = Idle /\ plan = Idle /\ sep = Idle /\ worker = Idle /\ files = Idle
    /\ reader = Idle
    /\ NewIdle

----------------------------------------------------------------------------
(* Program constants *)

SAMPLE_RATE == 44100
BEATS_PER_BAR == 4
MAX_STRETCH_PCT == 108
MIN_STRETCH_PCT == 92

----------------------------------------------------------------------------
(* Arithmetic helpers *)

\* Python int(n / d) for d > 0: truncation toward zero.
Trunc(n, d) == IF n >= 0 THEN n \div d ELSE -((-n) \div d)

Abs(x) == IF x < 0 THEN -x ELSE x
Min2(a, b) == IF a <= b THEN a ELSE b
Max2(a, b) == IF a >= b THEN a ELSE b
SetMax(S) == CHOOSE x \in S : \A y \in S : y <= x
SetMin(S) == CHOOSE x \in S : \A y \in S : x <= y

\* int(t_seconds * SAMPLE_RATE) for a time given in ms.
SecToSamples(t_ms) == Trunc(t_ms * (SAMPLE_RATE \div 100), 10)

\* int(samples / SAMPLE_RATE * 1000)
SamplesToMs(s) == Trunc(s * 10, SAMPLE_RATE \div 100)

\* len(audio[start:stop]) for an array of n samples (Python slice rules).
PySliceLen(start, stop, n) ==
    LET norm(x) == IF x < 0 THEN Max2(n + x, 0) ELSE Min2(x, n)
    IN  Max2(0, norm(stop) - norm(start))

bars_to_ms(bars, bpm) == (bars * BEATS_PER_BAR * 60 * 1000) \div bpm

bars_to_samples(bars, bpm) == (bars * BEATS_PER_BAR * 60 * SAMPLE_RATE) \div bpm

\* energies are percentages; avg_energy = (a + b) / 2
calculate_transition_bars(energy_a, energy_b) ==
    IF energy_a + energy_b >= 160 THEN 16
    ELSE IF energy_a + energy_b >= 100 THEN 24
    ELSE 32

----------------------------------------------------------------------------
(* Beat lists.  Python indexes from 0: Beat(beats, i) is beats[i]. *)

Beat(beats, i) == beats[i + 1]

find_nearest_beat(t, beats, direction) ==
    IF Len(beats) = 0 THEN [time |-> t, idx |-> -1]
    ELSE IF direction = "before" THEN
        LET valid == {i \in 0..(Len(beats) - 1) : Beat(beats, i) <= t}
        IN  IF valid = {} THEN [time |-> Beat(beats, 0), idx |-> 0]
            ELSE LET bt == Beat(beats, SetMax(valid))
                 IN  [time |-> bt,
                      idx  |-> SetMin({i \in 0..(Len(beats) - 1) : Beat(beats, i) = bt})]
    ELSE IF direction = "after" THEN
        LET valid == {i \in 0..(Len(beats) - 1) : Beat(beats, i) >= t}
        IN  IF valid = {} THEN [time |-> Beat(beats, Len(beats) - 1), idx |-> Len(beats) - 1]
            ELSE LET bt == Beat(beats, SetMin(valid))
                 IN  [time |-> bt,
                      idx  |-> SetMin({i \in 0..(Len(beats) - 1) : Beat(beats, i) = bt})]
    ELSE
        LET dist(i) == Abs(Beat(beats, i) - t)
            best == SetMin({i \in 0..(Len(beats) - 1) :
                              \A k \in 0..(Len(beats) - 1) : dist(i) <= dist(k)})
        IN  [time |-> Beat(beats, best), idx |-> best]

\* while idx % beats_per_bar != 0: idx += 1; past the end: the last beat.
RECURSIVE downbeat_walk(_, _, _)
downbeat_walk(idx, n, beats_per_bar) ==
    IF idx % beats_per_bar = 0 THEN idx
    ELSE IF idx + 1 >= n THEN n - 1
    ELSE downbeat_walk(idx + 1, n, beats_per_bar)

find_downbeat_wrong(start_beat_idx, beats, beats_per_bar) ==
    [time |-> Beat(beats, start_beat_idx), idx |-> start_beat_idx]

find_downbeat(start_beat_idx, beats, beats_per_bar) ==
    LET d == downbeat_walk(start_beat_idx, Len(beats), beats_per_bar)
    IN  [time |-> Beat(beats, d), idx |-> d]

find_cue_point(reference_time, beats, direction) ==
    IF Len(beats) = 0 THEN [time |-> reference_time, idx |-> -1]
    ELSE LET nb == find_nearest_beat(reference_time, beats, direction)
         IN  find_downbeat(nb.idx, beats, BEATS_PER_BAR)

----------------------------------------------------------------------------
(* Time-stretch (beatmatch.py).  A ratio is a fraction n/d. *)

MAX_STRETCH_RATIO == [n |-> MAX_STRETCH_PCT, d |-> 100]
MIN_STRETCH_RATIO == [n |-> MIN_STRETCH_PCT, d |-> 100]

RatioLT(r, s) == r.n * s.d < s.n * r.d
RatioLE(r, s) == r.n * s.d <= s.n * r.d

\* abs(r - 1.0) < abs(s - 1.0)
CloserToOne(r, s) == Abs(r.n - r.d) * s.d < Abs(s.n - s.d) * r.d

\* max(MIN_STRETCH_RATIO, min(MAX_STRETCH_RATIO, ratio))
clamp_ratio_none(r) == r

clamp_ratio(r) ==
    IF RatioLT(MAX_STRETCH_RATIO, r) THEN MAX_STRETCH_RATIO
    ELSE IF RatioLT(r, MIN_STRETCH_RATIO) THEN MIN_STRETCH_RATIO
    ELSE r

\* min(candidates, key=|x - 1|): the first of normal, half, double that is closest
calculate_stretch_ratio(source_bpm, target_bpm) ==
    LET normal  == [n |-> target_bpm, d |-> source_bpm]
        half    == [n |-> target_bpm, d |-> 2 * source_bpm]
        double  == [n |-> 2 * target_bpm, d |-> source_bpm]
        b1      == IF CloserToOne(half, normal) THEN half ELSE normal
        best    == IF CloserToOne(double, b1) THEN double ELSE b1
        mode    == IF best = normal THEN "normal"
                   ELSE IF best = half THEN "half" ELSE "double"
    IN  [ratio |-> best,
         mode |-> mode,
         is_within_limits |-> RatioLE(MIN_STRETCH_RATIO, best) /\ RatioLE(best, MAX_STRETCH_RATIO)]

\* Length of the output and the ratio handed to rubberband ("none" when the
\* audio is returned unchanged).  rate > 1 shortens: out = len / rate.
time_stretch(len, stretch_ratio, rubberband) ==
    LET c == clamp_ratio(stretch_ratio)
    IN  IF 1000 * Abs(c.n - c.d) < c.d \/ ~rubberband
        THEN [len |-> len, stretched |-> FALSE, applied |-> [n |-> 1, d |-> 1]]
        ELSE [len |-> (len * c.d) \div c.n, stretched |-> TRUE, applied |-> c]

stretch_to_bpm(len, source_bpm, target_bpm, rubberband) ==
    time_stretch(len, clamp_ratio(calculate_stretch_ratio(source_bpm, target_bpm).ratio),
                 rubberband)

----------------------------------------------------------------------------
(* Draft renderer: cue selection, safety loop, extraction, result. *)

ShortBeats == 22

\* the history counts of back-shifts saturate here
ShiftCountCap == 3

LenSamples(len_ms) == SecToSamples(len_ms)

BeatGrid(first, period, n) == [i \in 1..n |-> first + (i - 1) * period]

BeatPeriod(bpm) == 60000 \div bpm

FullBeats(first, len_ms, bpm) ==
    IF first >= len_ms THEN 0 ELSE (len_ms - 1 - first) \div BeatPeriod(bpm) + 1

BeatCount(kind, first, len_ms, bpm) ==
    IF kind = "none" THEN 0
    ELSE IF kind = "short" THEN Min2(ShortBeats, FullBeats(first, len_ms, bpm))
    ELSE FullBeats(first, len_ms, bpm)

BeatsA(j) == BeatGrid(j.a_first, BeatPeriod(j.bpm_a),
                      BeatCount(j.a_beats, j.a_first, j.len_a_ms, j.bpm_a))
BeatsB(j) == BeatGrid(j.b_first, BeatPeriod(j.bpm_b),
                      BeatCount("full", j.b_first, j.len_b_ms, j.bpm_b))

\* generate_draft_transition_from_job: the plan path needs planning data and a plan
TransitionBars(j) ==
    IF j.path = "noplan" THEN calculate_transition_bars(j.energy_a, j.energy_b)
    ELSE j.plan_bars

\* bpm_diff_percent <= 8.0
use_stems(j) == Abs(j.bpm_a - j.bpm_b) * 100 <= 8 * j.bpm_a

transition_samples(j) == bars_to_samples(TransitionBars(j), j.bpm_a)
transition_duration_ms(j) == bars_to_ms(TransitionBars(j), j.bpm_a)

reference_time_a(j) ==
    IF j.outro_ms > 0 /\ j.outro_ms + transition_duration_ms(j) <= j.len_a_ms
    THEN j.outro_ms
    ELSE j.len_a_ms - transition_duration_ms(j)

\* the loop's test: int(a_cue_time * SAMPLE_RATE) + transition_samples <= len(audio_a)
cue_is_safe(j, cue) == SecToSamples(cue) + transition_samples(j) <= LenSamples(j.len_a_ms)

shift_back_stuck(cue, idx, beats, bpm) == [time |-> cue, idx |-> idx]

shift_back(cue, idx, beats, bpm) ==
    IF idx >= 16
    THEN IF idx - 16 < Len(beats)
         THEN [time |-> Beat(beats, idx - 16), idx |-> idx - 16]
         ELSE [time |-> cue - bars_to_ms(4, bpm), idx |-> idx - 16]
    ELSE [time |-> cue - bars_to_ms(4, bpm), idx |-> idx]

NoResult ==
    [mode |-> "NONE", a_until_ms |-> 0, b_from_ms |-> 0, dur_ms |-> 0,
     a_start |-> 0, a_from |-> 0, b_start |-> 0, min_len |-> 0,
     applied |-> [n |-> 1, d |-> 1], degraded |-> FALSE]

NoHist ==
    [ref |-> 0, first_time |-> 0, first_idx |-> -1, nearest_idx |-> -1,
     shifts |-> 0, time_shifts |-> 0, exit |-> "none"]

\* _generate_crossfade_fallback: the last transition_samples of A, the first of B
crossfade_fallback(j, bars, degraded) ==
    LET ts           == bars_to_samples(bars, j.bpm_a)
        num_a        == LenSamples(j.len_a_ms)
        num_b        == LenSamples(j.len_b_ms)
        track_a_start == Max2(0, num_a - ts)
        target_len   == Min2(Min2(num_a - track_a_start, Min2(ts, num_b)), ts)
    IN  [mode |-> "CROSSFADE",
         a_until_ms |-> SamplesToMs(track_a_start),
         b_from_ms |-> SamplesToMs(target_len),
         dur_ms |-> SamplesToMs(target_len),
         a_start |-> track_a_start, a_from |-> track_a_start,
         b_start |-> 0, min_len |-> target_len,
         applied |-> [n |-> 1, d |-> 1], degraded |-> degraded]

\* _generate_hard_cut_with_plan_enhanced: 4 s tail of A after the cut, then B
\* from the entry point (0 unless the plan says otherwise) to its intro end.
hard_cut_enhanced(j) ==
    LET num_a        == LenSamples(j.len_a_ms)
        num_b        == LenSamples(j.len_b_ms)
        tail_samples == 4 * SAMPLE_RATE
        outro_start_sample == SecToSamples(j.outro_ms)
        effective_cut_sample ==
            IF 10 * outro_start_sample < num_a
            THEN Max2(0, num_a - tail_samples)
            ELSE Min2(outro_start_sample, num_a)
        end_a_tail   == Min2(effective_cut_sample + tail_samples, num_a)
        intro_end_sample == SecToSamples(Max2(j.b_intro_end_ms, 1000))
        end_b        == Max2(Min2(intro_end_sample, num_b), 2 * SAMPLE_RATE)
        seg_a        == end_a_tail - effective_cut_sample
        seg_b        == PySliceLen(0, end_b, num_b)
        crossfade_samples == SAMPLE_RATE \div 20
        overlap      == Min2(crossfade_samples, Min2(seg_a, seg_b))
        total        == IF overlap > 0 /\ seg_a > overlap
                        THEN seg_a + seg_b - overlap ELSE seg_a + seg_b
    IN  [mode |-> "HARD_CUT",
         a_until_ms |-> SamplesToMs(effective_cut_sample),
         b_from_ms |-> SamplesToMs(end_b),
         dur_ms |-> SamplesToMs(total),
         a_start |-> effective_cut_sample, a_from |-> effective_cut_sample,
         b_start |-> 0, min_len |-> end_b,
         applied |-> [n |-> 1, d |-> 1], degraded |-> FALSE]

\* What _check_vocal_clash_and_adjust returned for the job's segments.
vocal_outcome(j) ==
    IF j.vocal = "hard_cut" THEN [force_hard_cut |-> TRUE, adjusted_bars |-> 0]
    ELSE IF j.vocal = "shorten" THEN [force_hard_cut |-> FALSE, adjusted_bars |-> 4]
    ELSE [force_hard_cut |-> FALSE, adjusted_bars |-> TransitionBars(j)]

\* Steps 3-10 of the stem path after the safety loop, up to the result.
stems_render(j, cue) ==
    LET ts            == transition_samples(j)
        num_a         == LenSamples(j.len_a_ms)
        num_b         == LenSamples(j.len_b_ms)
        b_cue         == find_cue_point(0, BeatsB(j), "after")
        track_a_start == SecToSamples(cue)
        track_b_start == SecToSamples(b_cue.time)
        seg_a         == PySliceLen(track_a_start, Min2(track_a_start + ts, num_a), num_a)
        samples_needed_b == (ts * 11) \div 10
        seg_b         == PySliceLen(track_b_start,
                                    Min2(track_b_start + samples_needed_b, num_b), num_b)
        st            == stretch_to_bpm(seg_b, j.bpm_b, j.bpm_a, j.rubberband)
        min_len0      == Min2(Min2(seg_a, st.len), ts)
        vc            == vocal_outcome(j)
        adjusted      == j.path = "plan" /\ vc.adjusted_bars < TransitionBars(j)
        min_len       == IF adjusted THEN bars_to_samples(vc.adjusted_bars, j.bpm_a)
                         ELSE min_len0
    IN  [mode |-> "STEMS",
         a_until_ms |-> SamplesToMs(track_a_start),
         b_from_ms |-> SamplesToMs(min_len),
         dur_ms |-> SamplesToMs(min_len),
         a_start |-> track_a_start,
         a_from |-> IF track_a_start < 0 THEN Max2(num_a + track_a_start, 0)
                    ELSE Min2(track_a_start, num_a),
         b_start |-> track_b_start, min_len |-> min_len,
         applied |-> st.applied, degraded |-> FALSE]

BpmPairs == {<<120, 120>>, <<120, 126>>, <<120, 140>>, <<125, 126>>}
EnergyPairs == {<<90, 80>>, <<50, 60>>, <<20, 30>>}

TracksA ==
    {a \in [len_a_ms : {20000, 60000, 100000}, outro_ms : {0, 27630, 50000},
            a_beats : {"none", "short", "full"}, a_first : {0, 130, 50000}] :
        /\ a.a_beats = "none" => a.a_first = 0
        /\ a.a_first = 50000 => a.a_beats = "full"}

TracksB == {[len_b_ms |-> 90000, b_first |-> 0], [len_b_ms |-> 90000, b_first |-> 120],
            [len_b_ms |-> 20000, b_first |-> 0]}

\* what can go wrong inside the stem path: <<stems_ok, rubberband>>
Outcomes == {<<TRUE, TRUE>>, <<TRUE, FALSE>>, <<FALSE, TRUE>>}

NoPlanPaths ==
    {[path |-> "noplan", plan_type |-> "STEM_BLEND", plan_bars |-> 16, vocal |-> "clear",
      energy_a |-> e[1], energy_b |-> e[2], stems_ok |-> o[1], rubberband |-> o[2],
      b_intro_end_ms |-> 0] : e \in EnergyPairs, o \in Outcomes}

PlanPaths ==
    {[path |-> "plan", plan_type |-> "STEM_BLEND", plan_bars |-> b, vocal |-> "clear",
      energy_a |-> 90, energy_b |-> 80, stems_ok |-> o[1], rubberband |-> o[2],
      b_intro_end_ms |-> 0] : b \in {8, 16}, o \in Outcomes}
    \cup
    {[path |-> "plan", plan_type |-> "STEM_BLEND", plan_bars |-> b, vocal |-> v[1],
      energy_a |-> 90, energy_b |-> 80, stems_ok |-> TRUE, rubberband |-> TRUE,
      b_intro_end_ms |-> v[2]] :
        b \in {8, 16}, v \in {<<"shorten", 0>>, <<"hard_cut", 0>>, <<"hard_cut", 15000>>}}
    \cup
    {[path |-> "plan", plan_type |-> t[1], plan_bars |-> 8, vocal |-> "clear",
      energy_a |-> 90, energy_b |-> 80, stems_ok |-> TRUE, rubberband |-> TRUE,
      b_intro_end_ms |-> t[2]] :
        t \in {<<"CROSSFADE", 0>>, <<"HARD_CUT", 0>>, <<"HARD_CUT", 15000>>}}

MakeJob(p, a, b, t) ==
    [path |-> p.path, plan_type |-> p.plan_type, plan_bars |-> p.plan_bars,
     vocal |-> p.vocal, energy_a |-> p.energy_a, energy_b |-> p.energy_b,
     stems_ok |-> p.stems_ok, rubberband |-> p.rubberband,
     b_intro_end_ms |-> p.b_intro_end_ms,
     len_a_ms |-> a.len_a_ms, outro_ms |-> a.outro_ms, a_beats |-> a.a_beats,
     a_first |-> a.a_first, len_b_ms |-> b.len_b_ms, b_first |-> b.b_first,
     bpm_a |-> t[1], bpm_b |-> t[2]]

JobsCue ==
    {MakeJob(p, a, b, t) : p \in NoPlanPaths \cup PlanPaths, a \in TracksA,
                           b \in TracksB, t \in BpmPairs}

NoJob == [path |-> "none"]

\* the renderer, the mix assembler and the audio checks switched off
OldIdle ==
    /\ job = NoJob /\ rpc = "off" /\ a_cue_time = 0 /\ a_cue_beat_idx = -1
    /\ cue_hist = NoHist /\ result = NoResult
    /\ mix = Idle /\ bass = Idle /\ vocal = Idle /\ stretch = Idle

InitCue ==
    /\ job = NoJob
    /\ rpc = "idle"
    /\ a_cue_time = 0
    /\ a_cue_beat_idx = -1
    /\ cue_hist = NoHist
    /\ result = NoResult
    /\ mix = Idle /\ bass = Idle /\ vocal = Idle /\ stretch = Idle
    /\ ExtIdle

\* generate_draft_transition_from_job: a job arrives and a render path is chosen
ReceiveJob ==
    /\ rpc = "idle"
    /\ job' \in JobsCue
    /\ rpc' = "start"
    /\ UNCHANGED <<a_cue_time, a_cue_beat_idx, cue_hist, result>>
    /\ UNCHANGED <<mix, bass, vocal, stretch>>
    /\ UNCHANGED ext_vars

\* no-plan path with a BPM difference above 8 %: straight to the crossfade
CrossfadeOnBpmDiff ==
    /\ rpc = "start"
    /\ job.path = "noplan" /\ ~use_stems(job)
    /\ result' = crossfade_fallback(job, TransitionBars(job), FALSE)
    /\ rpc' = "done"
    /\ UNCHANGED <<job, a_cue_time, a_cue_beat_idx, cue_hist>>
    /\ UNCHANGED <<mix, bass, vocal, stretch>>
    /\ UNCHANGED ext_vars

\* plan types rendered without the stem path
PlanCrossfade ==
    /\ rpc = "start"
    /\ job.path = "plan" /\ job.plan_type = "CROSSFADE"
    /\ result' = crossfade_fallback(job, job.plan_bars, FALSE)
    /\ rpc' = "done"
    /\ UNCHANGED <<job, a_cue_time, a_cue_beat_idx, cue_hist>>
    /\ UNCHANGED <<mix, bass, vocal, stretch>>
    /\ UNCHANGED ext_vars

PlanHardCut ==
    /\ rpc = "start"
    /\ job.path = "plan" /\ job.plan_type = "HARD_CUT"
    /\ result' = hard_cut_enhanced(job)
    /\ rpc' = "done"
    /\ UNCHANGED <<job, a_cue_time, a_cue_beat_idx, cue_hist>>
    /\ UNCHANGED <<mix, bass, vocal, stretch>>
    /\ UNCHANGED ext_vars

\* the first selection of the cue on A
FindCueA ==
    /\ rpc = "start"
    /\ \/ job.path = "noplan" /\ use_stems(job)
       \/ job.path = "plan" /\ job.plan_type = "STEM_BLEND"
    /\ LET ref == reference_time_a(job)
           cue == find_cue_point(ref, BeatsA(job), "before")
       IN  /\ a_cue_time' = cue.time
           /\ a_cue_beat_idx' = cue.idx
           /\ cue_hist' = [NoHist EXCEPT !.ref = ref, !.first_time = cue.time,
                                         !.first_idx = cue.idx,
                                         !.nearest_idx =
                                            find_nearest_beat(ref, BeatsA(job), "before").idx]
    /\ rpc' = "loop"
    /\ UNCHANGED <<job, result>>
    /\ UNCHANGED <<mix, bass, vocal, stretch>>
    /\ UNCHANGED ext_vars

\* one pass of the safety loop that finds the cue safe and leaves
CueSafe ==
    /\ rpc = "loop"
    /\ cue_is_safe(job, a_cue_time)
    /\ cue_hist' = [cue_hist EXCEPT !.exit = "OK"]
    /\ rpc' = "extract"
    /\ UNCHANGED <<job, a_cue_time, a_cue_beat_idx, result>>
    /\ UNCHANGED <<mix, bass, vocal, stretch>>
    /\ UNCHANGED ext_vars

\* one pass of the safety loop that shifts the cue back four bars
CueShiftBack ==
    /\ rpc = "loop"
    /\ ~cue_is_safe(job, a_cue_time)
    /\ LET s == shift_back(a_cue_time, a_cue_beat_idx, BeatsA(job), job.bpm_a)
           by_time == ~(a_cue_beat_idx >= 16 /\ a_cue_beat_idx - 16 < Len(BeatsA(job)))
       IN  /\ a_cue_beat_idx' = s.idx
           /\ a_cue_time' = IF s.time < 0 THEN 0 ELSE s.time
           /\ rpc' = IF s.time < 0 THEN "extract" ELSE "loop"
           /\ cue_hist' = [cue_hist EXCEPT
                             !.shifts = Min2(@ + 1, ShiftCountCap),
                             !.time_shifts = IF by_time THEN Min2(@ + 1, ShiftCountCap) ELSE @,
                             !.exit = IF s.time < 0 THEN "CAP_AT_ZERO" ELSE @]
    /\ UNCHANGED <<job, result>>
    /\ UNCHANGED <<mix, bass, vocal, stretch>>
    /\ UNCHANGED ext_vars

\* extraction, stretch, separation, mixing and export succeed
RenderStems ==
    /\ rpc = "extract"
    /\ job.stems_ok
    /\ result' = IF job.path = "plan" /\ vocal_outcome(job).force_hard_cut
                 THEN hard_cut_enhanced(job)
                 ELSE stems_render(job, a_cue_time)
    /\ rpc' = "done"
    /\ UNCHANGED <<job, a_cue_time, a_cue_beat_idx, cue_hist>>
    /\ UNCHANGED <<mix, bass, vocal, stretch>>
    /\ UNCHANGED ext_vars

\* an exception inside the stem path: except-branch crossfade
RenderFails ==
    /\ rpc = "extract"
    /\ ~job.stems_ok
    /\ result' = crossfade_fallback(job, calculate_transition_bars(job.energy_a, job.energy_b),
                                    TRUE)
    /\ rpc' = "done"
    /\ UNCHANGED <<job, a_cue_time, a_cue_beat_idx, cue_hist>>
    /\ UNCHANGED <<mix, bass, vocal, stretch>>
    /\ UNCHANGED ext_vars

NextCue ==
    \/ ReceiveJob
    \/ CrossfadeOnBpmDiff
    \/ PlanCrossfade
    \/ PlanHardCut
    \/ FindCueA
    \/ CueSafe
    \/ CueShiftBack
    \/ RenderStems
    \/ RenderFails

\* The renderer is a sequential function: a pass of its loop, once reached, runs.
SpecCue ==
    /\ InitCue /\ [][NextCue]_vars
    /\ WF_vars(CueSafe) /\ WF_vars(CueShiftBack)

----------------------------------------------------------------------------
(* Properties of the cue selection and of the reported cut points *)

CueIsDownbeatOfA ==
    /\ a_cue_beat_idx >= 0 /\ a_cue_beat_idx < Len(BeatsA(job))
    /\ a_cue_beat_idx % BEATS_PER_BAR = 0
    /\ a_cue_time = Beat(BeatsA(job), a_cue_beat_idx)

HasDownbeatFrom(k, n) == \E i \in k..(n - 1) : i % BEATS_PER_BAR = 0

\* C6: the cue safety loop terminates for every input, and when it stops either
\* cue + transition duration fits inside track A (OK) or the cue is 0 (CAP_AT_ZERO).
C6_CueLoopTerminates ==
    /\ (rpc = "loop") ~> (rpc = "extract")
    /\ [](rpc = "extract" =>
            \/ cue_hist.exit = "OK" /\ cue_is_safe(job, a_cue_time)
            \/ cue_hist.exit = "CAP_AT_ZERO" /\ a_cue_time = 0)

C6_Witness ==
    /\ rpc = "extract"
    /\ cue_hist.shifts >= 2
    /\ cue_hist.exit = "OK"
    /\ a_cue_time > 0

\* C7 (amended): with a non-empty beat list that holds a downbeat at or after the
\* beat found before the reference time, the first cue is a downbeat of A, and it
\* stays one after every back-shift taken by beat index (no time-based shift, no
\* cap at zero).
C7_CueDownbeatWhenIndexed ==
    (/\ rpc \in {"loop", "extract"}
     /\ Len(BeatsA(job)) > 0
     /\ HasDownbeatFrom(cue_hist.nearest_idx, Len(BeatsA(job)))
     /\ cue_hist.time_shifts = 0
     /\ cue_hist.exit # "CAP_AT_ZERO")
    => CueIsDownbeatOfA

C7_Witness ==
    /\ rpc = "extract"
    /\ cue_hist.shifts >= 1
    /\ cue_hist.time_shifts = 0
    /\ HasDownbeatFrom(cue_hist.nearest_idx, Len(BeatsA(job)))
    /\ a_cue_beat_idx < cue_hist.first_idx
    /\ CueIsDownbeatOfA

\* C7 as stated: the cue is a downbeat of A when first selected and after every
\* back-shift.
C7_CueAlwaysDownbeat ==
    rpc \in {"loop", "extract"} => CueIsDownbeatOfA

\* C8 as stated: the first cue is the nearest downbeat at or before the requested
\* start time, never a later one.
C8_FirstCueNotLater ==
    (rpc = "loop" /\ cue_hist.shifts = 0 /\ Len(BeatsA(job)) > 0
       /\ Beat(BeatsA(job), 0) <= cue_hist.ref)
    => /\ a_cue_time <= cue_hist.ref
       /\ \A i \in 0..(Len(BeatsA(job)) - 1) :
             (i % BEATS_PER_BAR = 0 /\ Beat(BeatsA(job), i) <= cue_hist.ref)
                => Beat(BeatsA(job), i) <= a_cue_time

\* C9 as stated: the reported track_a_play_until_ms is the position of A consumed
\* as the cue, and track_b_start_from_ms is B's cue plus the stretch of B's
\* original timeline consumed by the transition (1 ms of rounding allowed).
C9_ReportedCutPoints ==
    rpc = "done" =>
        /\ result.a_until_ms = SamplesToMs(result.a_from)
        /\ Abs(result.b_from_ms
               - SamplesToMs(result.b_start
                             + (result.min_len * result.applied.n) \div result.applied.d)) <= 1

----------------------------------------------------------------------------
(* Mix assembler (mix_generator.py) *)

MaxTracks == 4

\* TrackData built from the project's dicts: ms values, 0 when the dict has none;
\* audio_ms is the length of the audio file behind file_path
TrackKinds ==
    {[duration_ms |-> 100000, audio_ms |-> 100000, bpm |-> 120, energy |-> 90,
      intro_end_ms |-> 15000, outro_start_ms |-> 60000],
     [duration_ms |-> 60000, audio_ms |-> 60000, bpm |-> 120, energy |-> 90,
      intro_end_ms |-> 32000, outro_start_ms |-> 28000],
     [duration_ms |-> 20000, audio_ms |-> 20000, bpm |-> 126, energy |-> 20,
      intro_end_ms |-> 0, outro_start_ms |-> 0],
     [duration_ms |-> 0, audio_ms |-> 100000, bpm |-> 120, energy |-> 50,
      intro_end_ms |-> 0, outro_start_ms |-> 0]}

\* the i-th track of a project gets id i
TrackLists ==
    UNION {[1..n -> TrackKinds] : n \in 1..MaxTracks}

get_default_intro_end_ms(bpm, duration_ms) ==
    Min2(bars_to_ms(16, bpm), duration_ms \div 4)

get_default_outro_start_ms(bpm, duration_ms) ==
    Max2(duration_ms - bars_to_ms(16, bpm), (3 * duration_ms) \div 4)

solo_start_of(tracks, i) ==
    LET t == tracks[i]
        intro_end_ms == IF t.intro_end_ms <= 0
                        THEN get_default_intro_end_ms(t.bpm, t.duration_ms)
                        ELSE t.intro_end_ms
    IN  IF i = 1 THEN 0 ELSE intro_end_ms

solo_end_of(tracks, i) ==
    LET t == tracks[i]
        outro_start_ms == IF t.outro_start_ms <= 0 \/ t.outro_start_ms >= t.duration_ms
                          THEN get_default_outro_start_ms(t.bpm, t.duration_ms)
                          ELSE t.outro_start_ms
    IN  IF i = Len(tracks) THEN t.duration_ms ELSE outro_start_ms

solo_kept_long_only(solo_start_ms, solo_end_ms) == solo_end_ms > solo_start_ms + 50000

\* "if solo_end_ms > solo_start_ms": an empty solo is not appended
solo_kept(solo_start_ms, solo_end_ms) == solo_end_ms > solo_start_ms

SoloSegment(position, track_id, start_ms, end_ms) ==
    [position |-> position, type |-> "SOLO", track_id |-> track_id,
     transition_id |-> <<0, 0>>, start_ms |-> start_ms, end_ms |-> end_ms,
     duration_ms |-> end_ms - start_ms]

TransitionSegment(position, a_id, b_id, duration_ms) ==
    [position |-> position, type |-> "TRANSITION", track_id |-> 0,
     transition_id |-> <<a_id, b_id>>, start_ms |-> 0, end_ms |-> duration_ms,
     duration_ms |-> duration_ms]

calculate_transition_duration_bars(energy_a, energy_b) ==
    IF energy_a + energy_b >= 160 THEN 16
    ELSE IF energy_a + energy_b >= 100 THEN 24
    ELSE 32

\* the loop of calculate_segments from track i on; positions count from 0
RECURSIVE segments_from(_, _, _)
segments_from(tracks, i, acc) ==
    IF i > Len(tracks) THEN acc
    ELSE LET s    == solo_start_of(tracks, i)
             e    == solo_end_of(tracks, i)
             acc1 == IF solo_kept(s, e)
                     THEN Append(acc, SoloSegment(Len(acc), i, s, e)) ELSE acc
             acc2 == IF i # Len(tracks)
                     THEN Append(acc1, TransitionSegment(Len(acc1), i, i + 1,
                              bars_to_ms(calculate_transition_duration_bars(tracks[i].energy,
                                                                            tracks[i + 1].energy),
                                         tracks[i].bpm)))
                     ELSE acc1
         IN  segments_from(tracks, i + 1, acc2)

calculate_segments(tracks) ==
    IF Len(tracks) < 2
    THEN IF Len(tracks) = 1
         THEN <<SoloSegment(0, 1, 0, tracks[1].duration_ms)>>
         ELSE <<>>
    ELSE segments_from(tracks, 1, <<>>)

\* the safety loop of generate_draft_transition run to its exit
RECURSIVE cue_loop(_, _, _)
cue_loop(j, cue, idx) ==
    IF cue_is_safe(j, cue) THEN cue
    ELSE LET s == shift_back(cue, idx, BeatsA(j), j.bpm_a)
         IN  IF s.time < 0 THEN 0 ELSE cue_loop(j, s.time, s.idx)

\* generate_draft_transition as called by the assembler (no plan)
generate_draft_transition(j) ==
    IF ~use_stems(j) THEN crossfade_fallback(j, TransitionBars(j), FALSE)
    ELSE IF ~j.stems_ok THEN crossfade_fallback(j, TransitionBars(j), TRUE)
    ELSE LET c == find_cue_point(reference_time_a(j), BeatsA(j), "before")
         IN  stems_render(j, cue_loop(j, c.time, c.idx))

\* generate_transition_audio: DraftTransitionParams from two TrackData, then the
\* TransitionResult built from the draft result
generate_transition_audio(track_a, track_b, stems_ok) ==
    LET r == generate_draft_transition(
               [path |-> "noplan", plan_type |-> "STEM_BLEND", plan_bars |-> 16,
                vocal |-> "clear", energy_a |-> track_a.energy,
                energy_b |-> track_b.energy, stems_ok |-> stems_ok, rubberband |-> TRUE,
                b_intro_end_ms |-> track_b.intro_end_ms,
                len_a_ms |-> track_a.audio_ms, outro_ms |-> track_a.outro_start_ms,
                a_beats |-> "full", a_first |-> 0,
                len_b_ms |-> track_b.audio_ms, b_first |-> 0,
                bpm_a |-> track_a.bpm, bpm_b |-> track_b.bpm])
    IN  [duration_ms |-> r.dur_ms, track_a_cut_ms |-> r.a_until_ms,
         track_b_start_ms |-> r.b_from_ms]

segment_data(segment) ==
    [position |-> segment.position, type |-> segment.type, trackId |-> segment.track_id,
     transitionId |-> segment.transition_id, startMs |-> segment.start_ms,
     endMs |-> segment.end_ms, durationMs |-> segment.duration_ms,
     audioFilePath |-> FALSE, audioError |-> FALSE]

NoReport ==
    [rendered |-> FALSE, a |-> 0, b |-> 0, track_a_cut_ms |-> 0, track_b_start_ms |-> 0,
     adjusted_a |-> FALSE, adjusted_b |-> FALSE]

\* number of SOLO segments in segments[:position]
solos_before(segments, position) ==
    Cardinality({k \in 1..position : segments[k].type = "SOLO"})

\* the tracks a transition is rendered from: <<track_a_idx, track_b_idx>> (1-based)
transition_tracks(segments, position) ==
    <<solos_before(segments, position), solos_before(segments, position) + 1>>

CurrentSegment == mix.segments[mix.i]

\* the segment after segments[i] is the SOLO of track track_b
next_is_solo_of(segments, i, track_b) ==
    /\ i + 1 <= Len(segments)
    /\ segments[i + 1].type = "SOLO"
    /\ segments[i + 1].track_id = track_b

\* the update of Solo B left out
adjust_next_solo_skipped(segments, i, track_b, track_b_start_ms) == segments

\* "2. Update next segment (Solo B) start point"
adjust_next_solo(segments, i, track_b, track_b_start_ms) ==
    IF next_is_solo_of(segments, i, track_b)
    THEN [segments EXCEPT
            ![i + 1].start_ms = track_b_start_ms,
            ![i + 1].duration_ms = Max2(0, segments[i + 1].end_ms - track_b_start_ms)]
    ELSE segments

InitMix ==
    /\ mix = [pc |-> "idle"]
    /\ job = NoJob /\ rpc = "off" /\ a_cue_time = 0 /\ a_cue_beat_idx = -1
    /\ cue_hist = NoHist /\ result = NoResult
    /\ bass = Idle /\ vocal = Idle /\ stretch = Idle
    /\ ExtIdle

\* generate_mix_for_project up to the loop: TrackData, calculate_segments
ReceiveProject ==
    /\ mix.pc = "idle"
    /\ \E tracks \in TrackLists :
         mix' = [pc |-> "loop", tracks |-> tracks, segments |-> calculate_segments(tracks),
                 i |-> 1, out |-> <<>>, reports |-> <<>>]
    /\ UNCHANGED <<cue_vars, bass, vocal, stretch>>
    /\ UNCHANGED ext_vars

\* one pass of the loop over a SOLO segment
ProcessSolo ==
    /\ mix.pc = "loop" /\ mix.i <= Len(mix.segments)
    /\ CurrentSegment.type = "SOLO"
    /\ mix' = [mix EXCEPT !.out = Append(@, segment_data(CurrentSegment)),
                          !.reports = Append(@, NoReport),
                          !.i = @ + 1]
    /\ UNCHANGED <<cue_vars, bass, vocal, stretch>>
    /\ UNCHANGED ext_vars

\* a TRANSITION with no SOLO before it, or no track after track_a_idx: left as is
TransitionSkipped ==
    /\ mix.pc = "loop" /\ mix.i <= Len(mix.segments)
    /\ CurrentSegment.type = "TRANSITION"
    /\ LET tt == transition_tracks(mix.segments, CurrentSegment.position)
       IN  ~(tt[1] >= 1 /\ tt[2] <= Len(mix.tracks))
    /\ mix' = [mix EXCEPT !.out = Append(@, segment_data(CurrentSegment)),
                          !.reports = Append(@, NoReport),
                          !.i = @ + 1]
    /\ UNCHANGED <<cue_vars, bass, vocal, stretch>>
    /\ UNCHANGED ext_vars

\* generate_transition_audio raised: audioError, neighbours untouched
TransitionError ==
    /\ mix.pc = "loop" /\ mix.i <= Len(mix.segments)
    /\ CurrentSegment.type = "TRANSITION"
    /\ LET tt == transition_tracks(mix.segments, CurrentSegment.position)
       IN  tt[1] >= 1 /\ tt[2] <= Len(mix.tracks)
    /\ mix' = [mix EXCEPT !.out = Append(@, [segment_data(CurrentSegment)
                                               EXCEPT !.audioError = TRUE]),
                          !.reports = Append(@, NoReport),
                          !.i = @ + 1]
    /\ UNCHANGED <<cue_vars, bass, vocal, stretch>>
    /\ UNCHANGED ext_vars

\* a TRANSITION rendered: its file and duration, then the two neighbours adjusted
TransitionRendered ==
    /\ mix.pc = "loop" /\ mix.i <= Len(mix.segments)
    /\ CurrentSegment.type = "TRANSITION"
    /\ \E stems_ok \in BOOLEAN :
       LET tt      == transition_tracks(mix.segments, CurrentSegment.position)
           track_a == mix.tracks[tt[1]]
           track_b == mix.tracks[tt[2]]
           res     == generate_transition_audio(track_a, track_b, stems_ok)
           sd      == [segment_data(CurrentSegment) EXCEPT !.audioFilePath = TRUE,
                                                       !.durationMs = res.duration_ms]
           n       == Len(mix.out)
           adjust_prev == n >= 1 /\ mix.out[n].type = "SOLO" /\ mix.out[n].trackId = tt[1]
           out1    == IF adjust_prev
                      THEN [mix.out EXCEPT
                              ![n].endMs = res.track_a_cut_ms,
                              ![n].durationMs = Max2(0, res.track_a_cut_ms - mix.out[n].startMs)]
                      ELSE mix.out
           adjust_next == next_is_solo_of(mix.segments, mix.i, tt[2])
           segs1   == adjust_next_solo(mix.segments, mix.i, tt[2], res.track_b_start_ms)
       IN  /\ tt[1] >= 1 /\ tt[2] <= Len(mix.tracks)
           /\ mix' = [mix EXCEPT
                        !.out = Append(out1, sd),
                        !.segments = segs1,
                        !.reports = Append(@, [rendered |-> TRUE, a |-> tt[1], b |-> tt[2],
                                               track_a_cut_ms |-> res.track_a_cut_ms,
                                               track_b_start_ms |-> res.track_b_start_ms,
                                               adjusted_a |-> adjust_prev,
                                               adjusted_b |-> adjust_next]),
                        !.i = @ + 1]
    /\ UNCHANGED <<cue_vars, bass, vocal, stretch>>
    /\ UNCHANGED ext_vars

\* the loop is over: results are returned
FinishMix ==
    /\ mix.pc = "loop" /\ mix.i > Len(mix.segments)
    /\ mix' = [mix EXCEPT !.pc = "done"]
    /\ UNCHANGED <<cue_vars, bass, vocal, stretch>>
    /\ UNCHANGED ext_vars

NextMix ==
    \/ ReceiveProject
    \/ ProcessSolo
    \/ TransitionSkipped
    \/ TransitionError
    \/ TransitionRendered
    \/ FinishMix

SpecMix == InitMix /\ [][NextMix]_vars

----------------------------------------------------------------------------
(* Render paths that time-stretch track B *)

StretchBpms == {60, 64, 100, 110, 115, 120, 124, 125, 126, 128, 130, 140, 150, 174, 200}

\* TransitionPlanExecutor._time_stretch: ratio = source_bpm / target_bpm, handed
\* to rubberband as it is
plan_executor_time_stretch(len, source_bpm, target_bpm, rubberband) ==
    IF rubberband
    THEN [len |-> (len * target_bpm) \div source_bpm, stretched |-> TRUE,
          applied |-> [n |-> source_bpm, d |-> target_bpm]]
    ELSE [len |-> len, stretched |-> FALSE, applied |-> [n |-> 1, d |-> 1]]

InitStretch ==
    /\ stretch = [pc |-> "idle"]
    /\ job = NoJob /\ rpc = "off" /\ a_cue_time = 0 /\ a_cue_beat_idx = -1
    /\ cue_hist = NoHist /\ result = NoResult
    /\ mix = Idle /\ bass = Idle /\ vocal = Idle
    /\ ExtIdle

\* a render reaches its time-stretch step: B at bpm_b is to follow A at bpm_a
RequestStretch ==
    /\ stretch.pc = "idle"
    /\ \E path \in {"stretch_to_bpm", "plan_executor"}, bpm_a \in StretchBpms,
          bpm_b \in StretchBpms, rubberband \in BOOLEAN :
         stretch' = [pc |-> "called", path |-> path, bpm_a |-> bpm_a, bpm_b |-> bpm_b,
                     rubberband |-> rubberband, len |-> SAMPLE_RATE,
                     out |-> [len |-> 0, stretched |-> FALSE, applied |-> [n |-> 1, d |-> 1]]]
    /\ UNCHANGED <<cue_vars, mix, bass, vocal>>
    /\ UNCHANGED ext_vars

\* draft renderer (both paths) and transition_generator: beatmatch.stretch_to_bpm
StretchToBpm ==
    /\ stretch.pc = "called" /\ stretch.path = "stretch_to_bpm"
    /\ stretch' = [stretch EXCEPT
                     !.pc = "done",
                     !.out = stretch_to_bpm(stretch.len, stretch.bpm_b, stretch.bpm_a,
                                            stretch.rubberband)]
    /\ UNCHANGED <<cue_vars, mix, bass, vocal>>
    /\ UNCHANGED ext_vars

\* TransitionPlanExecutor.execute step 2: stretch when the BPMs differ by > 0.5
PlanExecutorStretch ==
    /\ stretch.pc = "called" /\ stretch.path = "plan_executor"
    /\ stretch' = [stretch EXCEPT
                     !.pc = "done",
                     !.out = IF Abs(stretch.bpm_a - stretch.bpm_b) >= 1
                             THEN plan_executor_time_stretch(stretch.len, stretch.bpm_b,
                                                             stretch.bpm_a, stretch.rubberband)
                             ELSE [len |-> stretch.len, stretched |-> FALSE,
                                   applied |-> [n |-> 1, d |-> 1]]]
    /\ UNCHANGED <<cue_vars, mix, bass, vocal>>
    /\ UNCHANGED ext_vars

NextStretch ==
    \/ RequestStretch
    \/ StretchToBpm
    \/ PlanExecutorStretch

SpecStretch == InitStretch /\ [][NextStretch]_vars

\* C10 as stated: on every render path that time-stretches B the ratio applied is
\* inside [0.92, 1.08].
C10_AppliedRatioClamped ==
    (stretch.pc = "done" /\ stretch.out.stretched)
        => /\ RatioLE(MIN_STRETCH_RATIO, stretch.out.applied)
           /\ RatioLE(stretch.out.applied, MAX_STRETCH_RATIO)

----------------------------------------------------------------------------
(* Properties of the segment timeline *)

MixDone == mix.pc = "done"

\* an adjacent (SOLO, rendered TRANSITION, SOLO) at out[k], out[k+1], out[k+2]
RenderedTriple(k) ==
    /\ k + 2 <= Len(mix.out)
    /\ mix.out[k].type = "SOLO"
    /\ mix.out[k + 1].type = "TRANSITION" /\ mix.reports[k + 1].rendered
    /\ mix.out[k + 2].type = "SOLO"
    /\ mix.out[k + 1].transitionId = <<mix.out[k].trackId, mix.out[k + 2].trackId>>

\* C1 as stated: in the returned timeline every adjacent (SOLO A, TRANSITION A->B,
\* SOLO B) has SOLO_A.end_ms equal to the render's track_a_cut_ms and
\* SOLO_B.start_ms equal to its track_b_start_ms.
C1_SolosMeetTransition ==
    MixDone =>
        \A k \in 1..Len(mix.out) :
            RenderedTriple(k) =>
                /\ mix.out[k].endMs = mix.reports[k + 1].track_a_cut_ms
                /\ mix.out[k + 2].startMs = mix.reports[k + 1].track_b_start_ms

Alternates(segments) ==
    /\ Len(segments) >= 1
    /\ segments[1].type = "SOLO"
    /\ segments[Len(segments)].type = "SOLO"
    /\ \A k \in 1..(Len(segments) - 1) : segments[k].type # segments[k + 1].type

AllSolosNonEmpty(tracks) ==
    \A i \in 1..Len(tracks) : solo_end_of(tracks, i) > solo_start_of(tracks, i)

----------------------------------------------------------------------------
(* Vocal clash check on the rendered segments (times in ms from segment start) *)

MIN_VOCAL_FREE_MS == 4000
MIN_TRANSITION_BARS == 4

intensity_to_score(intensity) ==
    CASE intensity = "FULL" -> 3
      [] intensity = "SPARSE" -> 2
      [] intensity = "BACKGROUND" -> 1
      [] OTHER -> 0

Section(start, end, intensity) == [start |-> start, end |-> end, intensity |-> intensity]

NoVocals == [has_vocals |-> FALSE, vocal_sections |-> <<>>]

Vocals(sections) == [has_vocals |-> TRUE, vocal_sections |-> sections]

\* gaps between consecutive vocal sections that last min_duration or more
RECURSIVE gap_regions(_, _, _)
gap_regions(sections, i, min_duration) ==
    IF i >= Len(sections) THEN <<>>
    ELSE (IF sections[i + 1].start - sections[i].end >= min_duration
          THEN << <<sections[i].end, sections[i + 1].start>> >>
          ELSE <<>>) \o gap_regions(sections, i + 1, min_duration)

get_vocal_free_regions(vocals, min_duration, track_duration) ==
    IF ~vocals.has_vocals \/ vocals.vocal_sections = <<>>
    THEN (IF track_duration # 0 THEN << <<0, track_duration>> >> ELSE <<>>)
    ELSE LET sections == vocals.vocal_sections
             last_vocal_end == sections[Len(sections)].end
             intro == IF sections[1].start >= min_duration
                      THEN << <<0, sections[1].start>> >> ELSE <<>>
             outro == IF track_duration # 0 /\ track_duration - last_vocal_end >= min_duration
                      THEN << <<last_vocal_end, track_duration>> >> ELSE <<>>
         IN  intro \o gap_regions(sections, 1, min_duration) \o outro

\* the vocal part of _analyze_track_enriched
analyze_track_enriched(vocals, duration) ==
    [vocals |-> vocals,
     has_vocals |-> vocals.has_vocals,
     vocal_free_regions |-> IF vocals.has_vocals
                            THEN get_vocal_free_regions(vocals, MIN_VOCAL_FREE_MS, duration)
                            ELSE << <<0, duration>> >>]

check_vocal_clash(vocals_a, vocals_b, transition_start_a, transition_end_b, overlap_duration) ==
    LET sa == vocals_a.vocal_sections
        sb == vocals_b.vocal_sections
        in_a == {k \in 1..Len(sa) : sa[k].start < transition_start_a + overlap_duration
                                     /\ sa[k].end > transition_start_a}
        in_b == {k \in 1..Len(sb) : sb[k].start < overlap_duration /\ sb[k].end > 0}
        combined_intensity ==
            SetMax({intensity_to_score(sa[k].intensity) : k \in in_a})
            + SetMax({intensity_to_score(sb[k].intensity) : k \in in_b})
        none == [has_clash |-> FALSE, clash_severity |-> "none"]
    IN  IF ~vocals_a.has_vocals \/ ~vocals_b.has_vocals THEN none
        ELSE IF in_a = {} \/ in_b = {} THEN none
        ELSE IF combined_intensity >= 5 THEN [has_clash |-> TRUE, clash_severity |-> "severe"]
        ELSE IF combined_intensity >= 3 THEN [has_clash |-> TRUE, clash_severity |-> "moderate"]
        ELSE IF combined_intensity >= 2 THEN [has_clash |-> TRUE, clash_severity |-> "minor"]
        ELSE none

\* the same check without the one-bar safety margin of line 401
check_vocal_clash_and_adjust_no_margin(analysis_a, analysis_b, transition_start_a, transition_duration, bpm) ==
    LET bar_duration == 240000 \div bpm
        no_change == [has_clash |-> FALSE, severity |-> "none",
                   adjusted_duration |-> transition_duration, force_hard_cut |-> FALSE]
        rb == analysis_b.vocal_free_regions
        intros == {k \in 1..Len(rb) : rb[k][1] = 0}
        intro_b_duration == IF intros = {} THEN 0 ELSE rb[SetMin(intros)][2] - rb[SetMin(intros)][1]
        ra == analysis_a.vocal_free_regions
        max_region_end == SetMax({ra[k][2] : k \in 1..Len(ra)})
        outro_a_duration ==
            IF ra # <<>> /\ ra[Len(ra)][2] >= max_region_end - 2000
            THEN ra[Len(ra)][2] - ra[Len(ra)][1] ELSE 0
        safe_bars == intro_b_duration \div bar_duration
        clash_info == check_vocal_clash(analysis_a.vocals, analysis_b.vocals,
                                        transition_start_a, transition_duration,
                                        transition_duration)
        min_safe_duration == IF intro_b_duration > 0 \/ outro_a_duration > 0
                             THEN Min2(intro_b_duration, outro_a_duration) ELSE 0
        clash == [no_change EXCEPT !.has_clash = TRUE, !.severity = clash_info.clash_severity]
    IN  IF intro_b_duration > 0 /\ intro_b_duration >= transition_duration THEN no_change
        ELSE IF intro_b_duration > 0 /\ safe_bars >= MIN_TRANSITION_BARS
        THEN [no_change EXCEPT !.adjusted_duration =
                  safe_bars * bar_duration]
        ELSE IF ~analysis_a.has_vocals THEN no_change
        ELSE IF ~clash_info.has_clash THEN no_change
        ELSE IF clash_info.clash_severity = "severe"
        THEN (IF min_safe_duration >= MIN_TRANSITION_BARS * bar_duration
              THEN [clash EXCEPT !.adjusted_duration =
                        (min_safe_duration \div bar_duration) * bar_duration]
              ELSE [clash EXCEPT !.force_hard_cut = TRUE, !.adjusted_duration = 0])
        ELSE IF clash_info.clash_severity = "moderate"
        THEN [clash EXCEPT !.adjusted_duration = Min2(transition_duration, bar_duration * 8)]
        ELSE clash

check_vocal_clash_and_adjust(analysis_a, analysis_b, transition_start_a, transition_duration, bpm) ==
    LET bar_duration == 240000 \div bpm
        no_change == [has_clash |-> FALSE, severity |-> "none",
                   adjusted_duration |-> transition_duration, force_hard_cut |-> FALSE]
        rb == analysis_b.vocal_free_regions
        intros == {k \in 1..Len(rb) : rb[k][1] = 0}
        intro_b_duration == IF intros = {} THEN 0 ELSE rb[SetMin(intros)][2] - rb[SetMin(intros)][1]
        ra == analysis_a.vocal_free_regions
        max_region_end == SetMax({ra[k][2] : k \in 1..Len(ra)})
        outro_a_duration ==
            IF ra # <<>> /\ ra[Len(ra)][2] >= max_region_end - 2000
            THEN ra[Len(ra)][2] - ra[Len(ra)][1] ELSE 0
        safe_bars == intro_b_duration \div bar_duration
        clash_info == check_vocal_clash(analysis_a.vocals, analysis_b.vocals,
                                        transition_start_a, transition_duration,
                                        transition_duration)
        min_safe_duration == IF intro_b_duration > 0 \/ outro_a_duration > 0
                             THEN Min2(intro_b_duration, outro_a_duration) ELSE 0
        clash == [no_change EXCEPT !.has_clash = TRUE, !.severity = clash_info.clash_severity]
    IN  IF intro_b_duration > 0 /\ intro_b_duration >= transition_duration THEN no_change
        ELSE IF intro_b_duration > 0 /\ safe_bars >= MIN_TRANSITION_BARS
        THEN [no_change EXCEPT !.adjusted_duration =
                  Max2((safe_bars - 1) * bar_duration, MIN_TRANSITION_BARS * bar_duration)]
        ELSE IF ~analysis_a.has_vocals THEN no_change
        ELSE IF ~clash_info.has_clash THEN no_change
        ELSE IF clash_info.clash_severity = "severe"
        THEN (IF min_safe_duration >= MIN_TRANSITION_BARS * bar_duration
              THEN [clash EXCEPT !.adjusted_duration =
                        (min_safe_duration \div bar_duration) * bar_duration]
              ELSE [clash EXCEPT !.force_hard_cut = TRUE, !.adjusted_duration = 0])
        ELSE IF clash_info.clash_severity = "moderate"
        THEN [clash EXCEPT !.adjusted_duration = Min2(transition_duration, bar_duration * 8)]
        ELSE clash

\* vocal sections the detector can report for a 30 s or longer segment
VocalLayouts ==
    { NoVocals,
      Vocals(<<>>),
      Vocals(<<Section(0, 30000, "FULL")>>),
      Vocals(<<Section(10000, 30000, "FULL")>>),
      Vocals(<<Section(20000, 30000, "FULL")>>),
      Vocals(<<Section(3000, 12000, "FULL")>>),
      Vocals(<<Section(6000, 16000, "FULL")>>),
      Vocals(<<Section(0, 5000, "FULL")>>),
      Vocals(<<Section(0, 30000, "SPARSE")>>),
      Vocals(<<Section(2000, 28000, "BACKGROUND")>>),
      Vocals(<<Section(5000, 9000, "FULL"), Section(15000, 20000, "SPARSE")>>) }

VocalBpms == {120, 128}
VocalBars == {16, 32}
VocalPaths == {"no_plan", "plan_stem_blend", "plan_stem_blend_phases", "plan_crossfade"}

NoVocalCheck ==
    [has_clash |-> FALSE, severity |-> "none", adjusted_duration |-> 0, force_hard_cut |-> FALSE]

\* rendered transition: realized mode, length, and the part of it in which the
\* vocals of both tracks are mixed at a non-zero gain
NoVocalOut == [mode |-> "NONE", dur_ms |-> 0, voc_from |-> 0, voc_to |-> 0]

\* vocals curves of the four-phase mix: A fades out and B fades in over phase 3
four_phase_vocals(mode, transition_bars, bpm, dur_ms) ==
    LET phase_ms == bars_to_ms(transition_bars \div 4, bpm)
    IN  [mode |-> mode, dur_ms |-> dur_ms,
         voc_from |-> Min2(2 * phase_ms, dur_ms), voc_to |-> Min2(3 * phase_ms, dur_ms)]

InitVocal ==
    /\ vocal = [pc |-> "idle"]
    /\ job = NoJob /\ rpc = "off" /\ a_cue_time = 0 /\ a_cue_beat_idx = -1
    /\ cue_hist = NoHist /\ result = NoResult
    /\ mix = Idle /\ bass = Idle /\ stretch = Idle
    /\ ExtIdle

ReceiveVocalJob ==
    /\ vocal.pc = "idle"
    /\ \E path \in VocalPaths, bpm \in VocalBpms, bars \in VocalBars,
          va \in VocalLayouts, vb \in VocalLayouts :
         vocal' = [pc |-> "received", path |-> path, bpm |-> bpm, bars |-> bars,
                   vocals_a |-> va, vocals_b |-> vb,
                   vocal_check |-> NoVocalCheck, out |-> NoVocalOut]
    /\ UNCHANGED <<cue_vars, mix, bass, stretch>>
    /\ UNCHANGED ext_vars

\* generate_draft_transition: stems are separated and mixed, no vocal check
RenderNoPlan ==
    /\ vocal.pc = "received" /\ vocal.path = "no_plan"
    /\ vocal' = [vocal EXCEPT
                   !.pc = "done",
                   !.out = four_phase_vocals("STEMS", vocal.bars, vocal.bpm,
                                             bars_to_ms(vocal.bars, vocal.bpm))]
    /\ UNCHANGED <<cue_vars, mix, bass, stretch>>
    /\ UNCHANGED ext_vars

\* plan of type CROSSFADE: equal-power crossfade of the full mixes
RenderPlanCrossfade ==
    /\ vocal.pc = "received" /\ vocal.path = "plan_crossfade"
    /\ vocal' = [vocal EXCEPT
                   !.pc = "done",
                   !.out = [mode |-> "CROSSFADE", dur_ms |-> bars_to_ms(vocal.bars, vocal.bpm),
                            voc_from |-> 0, voc_to |-> bars_to_ms(vocal.bars, vocal.bpm)]]
    /\ UNCHANGED <<cue_vars, mix, bass, stretch>>
    /\ UNCHANGED ext_vars

\* plan of type STEM_BLEND: enriched analysis of both segments, then the vocal clash check
VocalCheck ==
    /\ vocal.pc = "received" /\ vocal.path \in {"plan_stem_blend", "plan_stem_blend_phases"}
    /\ LET transition_duration == bars_to_ms(vocal.bars, vocal.bpm)
           analysis_a == analyze_track_enriched(vocal.vocals_a, transition_duration)
           analysis_b == analyze_track_enriched(vocal.vocals_b, transition_duration)
       IN  vocal' = [vocal EXCEPT
                       !.pc = "checked",
                       !.vocal_check = check_vocal_clash_and_adjust(
                                           analysis_a, analysis_b, 0,
                                           transition_duration, vocal.bpm)]
    /\ UNCHANGED <<cue_vars, mix, bass, stretch>>
    /\ UNCHANGED ext_vars

ForceHardCut ==
    /\ vocal.pc = "checked" /\ vocal.vocal_check.force_hard_cut
    /\ vocal' = [vocal EXCEPT
                   !.pc = "done",
                   !.out = [mode |-> "HARD_CUT", dur_ms |-> bars_to_ms(8, vocal.bpm),
                            voc_from |-> 0, voc_to |-> 0]]
    /\ UNCHANGED <<cue_vars, mix, bass, stretch>>
    /\ UNCHANGED ext_vars

\* the adjusted duration is applied when it is shorter, then the stems are mixed
RenderPlanStems ==
    /\ vocal.pc = "checked" /\ ~vocal.vocal_check.force_hard_cut
    /\ LET requested == bars_to_ms(vocal.bars, vocal.bpm)
           adjusted == vocal.vocal_check.adjusted_duration
           shorter == adjusted < requested
           dur == IF shorter THEN adjusted ELSE requested
           transition_bars == IF shorter THEN adjusted \div (240000 \div vocal.bpm)
                              ELSE vocal.bars
       IN  vocal' = [vocal EXCEPT
                       !.pc = "done",
                       !.out = IF vocal.path = "plan_stem_blend_phases"
                               THEN [mode |-> "STEMS", dur_ms |-> dur,
                                     voc_from |-> 0, voc_to |-> dur]
                               ELSE four_phase_vocals("STEMS", transition_bars, vocal.bpm, dur)]
    /\ UNCHANGED <<cue_vars, mix, bass, stretch>>
    /\ UNCHANGED ext_vars

NextVocal ==
    \/ ReceiveVocalJob
    \/ RenderNoPlan
    \/ RenderPlanCrossfade
    \/ VocalCheck
    \/ ForceHardCut
    \/ RenderPlanStems

SpecVocal == InitVocal /\ [][NextVocal]_vars

\* FULL sections of both tracks that are sung at the same time inside [from, to)
full_vocal_overlap(vocals_a, vocals_b, from, to) ==
    \E i \in 1..Len(vocals_a.vocal_sections), k \in 1..Len(vocals_b.vocal_sections) :
        LET sa == vocals_a.vocal_sections[i]
            sb == vocals_b.vocal_sections[k]
        IN  /\ sa.intensity = "FULL" /\ sb.intensity = "FULL"
            /\ Max2(Max2(sa.start, sb.start), from) < Min2(Min2(sa.end, sb.end), to)

\* C5 as stated: when FULL vocals of A and B overlap inside the requested
\* transition window, the rendered transition is a HARD_CUT or leaves no part in
\* which both FULL vocals sound together, on every render path.
C5_NoFullVocalOverlap ==
    (/\ vocal.pc = "done"
     /\ full_vocal_overlap(vocal.vocals_a, vocal.vocals_b, 0,
                           bars_to_ms(vocal.bars, vocal.bpm)))
        => \/ vocal.out.mode = "HARD_CUT"
           \/ ~full_vocal_overlap(vocal.vocals_a, vocal.vocals_b,
                                  vocal.out.voc_from, vocal.out.voc_to)

\* the same property on the STEM_BLEND plan path alone
C5_PlanStemBlendOnly ==
    (vocal.pc = "done" /\ vocal.path \in {"plan_stem_blend", "plan_stem_blend_phases"})
        => C5_NoFullVocalOverlap

----------------------------------------------------------------------------
(* Bass of the two tracks in a stem-blend transition.  A bass stem is a signal
   of constant level amp (0 = silent); its envelope after the swap or under the
   mixing curves decides where it is present. *)

WINDOW_SAMPLES == SAMPLE_RATE \div 10
FADE_SAMPLES == (5 * SAMPLE_RATE) \div 1000
MAX_OVERLAP_BEATS == 2

\* 0^2 + 1^2 + ... + m^2
SumSq(m) == IF m < 0 THEN 0 ELSE (m * (m + 1) * (2 * m + 1)) \div 6

\* number of samples in [lo, hi) that also lie in [from, to)
Inter(lo, hi, from, to) == Max2(0, Min2(hi, to) - Max2(lo, from))

\* the swap time as a sample position: int(swap_time * sr), transition_start = 0
calculate_bass_swap_time(transition_duration_bars, bpm, swap_bar) ==
    LET bar == Max2(1, Min2(swap_bar, transition_duration_bars))
    IN  ((bar - 1) * BEATS_PER_BAR * 60 * SAMPLE_RATE) \div bpm

\* execute_bass_swap, "instant" style: where the stems are cut and which of the
\* two 5 ms fades are applied
execute_bass_swap(len, swap_time_samples) ==
    LET swap_sample == IF swap_time_samples < 0 THEN 0
                       ELSE IF swap_time_samples >= len THEN len - 1
                       ELSE swap_time_samples
    IN  [len |-> len,
         swap_sample |-> swap_sample,
         fade_out |-> swap_sample + FADE_SAMPLES <= len,
         fade_in |-> swap_sample - FADE_SAMPLES >= 0]

\* sum of gain^2 over the samples [lo, hi) of A's swapped bass, gain in 1/219
bass_a_energy(sw, lo, hi) ==
    LET full == (FADE_SAMPLES - 1) * (FADE_SAMPLES - 1)
        j1 == Max2(lo, sw.swap_sample) - sw.swap_sample
        j2 == Min2(hi, sw.swap_sample + FADE_SAMPLES) - 1 - sw.swap_sample
    IN  full * Inter(lo, hi, 0, sw.swap_sample)
        + (IF sw.fade_out
           THEN (IF j2 >= j1 THEN SumSq(FADE_SAMPLES - 1 - j1) - SumSq(FADE_SAMPLES - 2 - j2)
                 ELSE 0)
           ELSE full * Inter(lo, hi, sw.swap_sample, sw.len))

\* the same for B's swapped bass
bass_b_energy(sw, lo, hi) ==
    LET full == (FADE_SAMPLES - 1) * (FADE_SAMPLES - 1)
        fade_start == sw.swap_sample - FADE_SAMPLES
        j1 == Max2(lo, fade_start) - fade_start
        j2 == Min2(hi, sw.swap_sample) - 1 - fade_start
    IN  full * Inter(lo, hi, sw.swap_sample, sw.len)
        + (IF sw.fade_in /\ j2 >= j1 THEN SumSq(j2) - SumSq(j1 - 1) ELSE 0)

\* windows in which both levels exceed 0.1 of the larger peak level; levels are
\* given squared, so the threshold is 1/100 of the larger squared peak
overlap_count(num_windows, sq_a, sq_b) ==
    LET max_sq == SetMax({sq_a[w] : w \in 0..(num_windows - 1)}
                         \cup {sq_b[w] : w \in 0..(num_windows - 1)} \cup {0})
    IN  Cardinality({w \in 0..(num_windows - 1) :
                        /\ sq_a[w] > max_sq \div 100
                        /\ sq_b[w] > max_sq \div 100})

\* validate_bass_swap: RMS over 100 ms windows, normalised by the larger peak
validate_bass_swap(sw, amp_a, amp_b, bpm) ==
    LET num_windows == sw.len \div WINDOW_SAMPLES
        rms_a == [w \in 0..(num_windows - 1) |->
                     amp_a * amp_a * bass_a_energy(sw, w * WINDOW_SAMPLES, (w + 1) * WINDOW_SAMPLES)]
        rms_b == [w \in 0..(num_windows - 1) |->
                     amp_b * amp_b * bass_b_energy(sw, w * WINDOW_SAMPLES, (w + 1) * WINDOW_SAMPLES)]
        overlap_windows == overlap_count(num_windows, rms_a, rms_b)
    IN  [overlap_windows |-> overlap_windows,
         \* overlap_windows * 0.1 s / (60 / bpm) <= max_overlap_beats
         valid |-> overlap_windows * bpm <= MAX_OVERLAP_BEATS * 600]

\* phase lengths of the four-phase mix
phase_samples(total_samples, bpm, transition_bars) ==
    LET samples_per_phase == bars_to_samples(transition_bars \div 4, bpm)
    IN  IF 4 * samples_per_phase > total_samples THEN total_samples \div 4
        ELSE samples_per_phase

\* np.linspace(from, to, n)[k] in 1/1000
linspace(from, to, n, k) ==
    IF n <= 1 THEN from
    ELSE IF to >= from THEN from + ((to - from) * k) \div (n - 1)
    ELSE from - ((from - to) * k) \div (n - 1)

\* _generate_curves_track_a_spec: bass 100% -> 100..20% -> 20% -> fade to 0
curve_a_bass(s, p, total_samples) ==
    IF s < p THEN 1000
    ELSE IF s < 2 * p THEN linspace(1000, 200, p, s - p)
    ELSE IF s < 3 * p THEN 200
    ELSE IF p > 0 THEN linspace(200, 0, total_samples - 3 * p, s - 3 * p)
    ELSE 1000

\* _generate_curves_track_b_spec: bass 0% -> 0..100% -> 100% -> 100%
curve_b_bass(s, p, total_samples) ==
    IF s < p THEN 0
    ELSE IF s < 2 * p THEN linspace(0, 1000, p, s - p)
    ELSE 1000

\* _apply_four_phase_mixing_spec, bass stems: the levels at the start of every
\* 100 ms window, and the windows in which both are present
four_phase_bass_overlap(total_samples, bpm, transition_bars, amp_a, amp_b) ==
    LET p == phase_samples(total_samples, bpm, transition_bars)
        num_windows == total_samples \div WINDOW_SAMPLES
        ga == [w \in 0..(num_windows - 1) |-> curve_a_bass(w * WINDOW_SAMPLES, p, total_samples)]
        gb == [w \in 0..(num_windows - 1) |-> curve_b_bass(w * WINDOW_SAMPLES, p, total_samples)]
    IN  overlap_count(num_windows,
                      [w \in 0..(num_windows - 1) |-> amp_a * amp_a * ga[w] * ga[w]],
                      [w \in 0..(num_windows - 1) |-> amp_b * amp_b * gb[w] * gb[w]])

\* trackABpm is taken from the job as it is; 800 stands for a value no range
\* check stops
BassBpms == {120, 128, 800}
BassBars == {8, 16}
BassAmps == {0, 1, 2}
BassPaths == {"no_plan", "plan_stem_blend"}
\* stems.bass_swap_bar of the plan, when the plan gives one
PlanSwapBars ==
    {[given |-> FALSE, bar |-> 0], [given |-> TRUE, bar |-> 0],
     [given |-> TRUE, bar |-> 3], [given |-> TRUE, bar |-> 12]}

NoSwap == [len |-> 0, swap_sample |-> 0, fade_out |-> FALSE, fade_in |-> FALSE]

InitBass ==
    /\ bass = [pc |-> "idle"]
    /\ job = NoJob /\ rpc = "off" /\ a_cue_time = 0 /\ a_cue_beat_idx = -1
    /\ cue_hist = NoHist /\ result = NoResult
    /\ mix = Idle /\ vocal = Idle /\ stretch = Idle
    /\ ExtIdle

ReceiveBassJob ==
    /\ bass.pc = "idle"
    /\ \E path \in BassPaths, bpm \in BassBpms, bars \in BassBars,
          amp_a \in BassAmps, amp_b \in BassAmps, plan_bar \in PlanSwapBars :
         bass' = [pc |-> "stems", path |-> path, bpm |-> bpm, bars |-> bars,
                  amp_a |-> amp_a, amp_b |-> amp_b, plan_bar |-> plan_bar,
                  min_len |-> bars_to_samples(bars, bpm),
                  swap |-> NoSwap, swaps |-> 0, style |-> "none",
                  validated |-> FALSE, first_valid |-> TRUE, valid |-> TRUE,
                  mode |-> "NONE", overlap_windows |-> 0]
    /\ UNCHANGED <<cue_vars, mix, vocal, stretch>>
    /\ UNCHANGED ext_vars

\* generate_draft_transition: four-phase curves on all stems, bass included
FourPhaseMix ==
    /\ bass.pc = "stems" /\ bass.path = "no_plan"
    /\ bass' = [bass EXCEPT
                  !.pc = "done", !.mode = "STEMS",
                  !.overlap_windows = four_phase_bass_overlap(bass.min_len, bass.bpm, bass.bars,
                                                              bass.amp_a, bass.amp_b)]
    /\ UNCHANGED <<cue_vars, mix, vocal, stretch>>
    /\ UNCHANGED ext_vars

\* generate_draft_transition_with_plan: apply_bass_swap_to_stems, "instant"
ApplyBassSwap ==
    /\ bass.pc = "stems" /\ bass.path = "plan_stem_blend"
    /\ LET original_bass_swap_bar == IF bass.plan_bar.given THEN bass.plan_bar.bar
                                     ELSE bass.bars \div 2
           bass_swap_bar == Min2(original_bass_swap_bar, Max2(1, bass.bars \div 2))
           bass_swap_time == calculate_bass_swap_time(bass.bars, bass.bpm, bass_swap_bar)
       IN  bass' = [bass EXCEPT
                      !.pc = "swapped", !.style = "instant", !.swaps = bass.swaps + 1,
                      !.swap = execute_bass_swap(bass.min_len, bass_swap_time)]
    /\ UNCHANGED <<cue_vars, mix, vocal, stretch>>
    /\ UNCHANGED ext_vars

\* the verdict of validate_bass_swap is logged, nothing else depends on it
ValidateBassSwap ==
    /\ bass.pc = "swapped"
    /\ LET validation == validate_bass_swap(bass.swap, bass.amp_a, bass.amp_b, bass.bpm)
       IN  bass' = [bass EXCEPT
                      !.pc = "validated", !.validated = TRUE,
                      !.first_valid = validation.valid, !.valid = validation.valid,
                      !.overlap_windows = validation.overlap_windows]
    /\ UNCHANGED <<cue_vars, mix, vocal, stretch>>
    /\ UNCHANGED ext_vars

\* phase mixing with identity curves on the swapped bass stems, then export
MixSwapped ==
    /\ bass.pc = "validated"
    /\ bass' = [bass EXCEPT !.pc = "done", !.mode = "STEMS"]
    /\ UNCHANGED <<cue_vars, mix, vocal, stretch>>
    /\ UNCHANGED ext_vars

NextBass ==
    \/ ReceiveBassJob
    \/ FourPhaseMix
    \/ ApplyBassSwap
    \/ ValidateBassSwap
    \/ MixSwapped

SpecBass == InitBass /\ [][NextBass]_vars

\* C3 as stated: in every transition rendered in stem-blend mode, with or without
\* a plan, both basses are present together for at most 2 beats.
C3_BassOverlapAtMostTwoBeats ==
    (bass.pc = "done" /\ bass.mode = "STEMS")
        => bass.overlap_windows * bass.bpm <= MAX_OVERLAP_BEATS * 600

\* the same bound on the plan path at tempos up to 600 BPM
C3_PlanPathRealTempo ==
    (bass.pc = "done" /\ bass.path = "plan_stem_blend" /\ bass.bpm <= 600)
        => C3_BassOverlapAtMostTwoBeats

RenderPaths == {"noplan", "plan", "executor"}

\* where the separator raises: loading the model, or applying it to A or to B
SeparatorFaults == {"none", "load_model", "apply_a", "apply_b"}

\* StemSeparator.separate on one track: without Demucs the input is copied into
\* the four stems; otherwise the model is loaded if needed and applied.
separate(demucs, model_loaded, fault, track) ==
    IF ~demucs THEN [raised |-> FALSE, stems |-> "passthrough", model |-> model_loaded]
    ELSE IF ~model_loaded /\ fault = "load_model"
         THEN [raised |-> TRUE, stems |-> "none", model |-> FALSE]
    ELSE IF fault = "apply_" \o track
         THEN [raised |-> TRUE, stems |-> "none", model |-> TRUE]
    ELSE [raised |-> FALSE, stems |-> "separated", model |-> TRUE]

\* TransitionPlanExecutor._separate_stems: a failure is logged and the full audio
\* stands in for every stem.
executor_separate_stems(demucs, model_loaded, fault, track) ==
    LET s == separate(demucs, model_loaded, fault, track)
    IN  IF s.raised THEN [s EXCEPT !.raised = FALSE, !.stems = "full_audio"] ELSE s

RenderJobs ==
    [path : RenderPaths, demucs : BOOLEAN, fault : SeparatorFaults,
     energy : EnergyPairs, plan_bars : {8, 16}]

InitRender ==
    /\ OldIdle
    /\ render = [pc |-> "idle"]
    /\ plan = Idle /\ sep = Idle /\ worker = Idle /\ files = Idle /\ reader = Idle
    /\ NewIdle

\* a render reaches its separation step
ReceiveRender ==
    /\ render.pc = "idle"
    /\ \E j \in RenderJobs :
          render' = [pc |-> "separate_a", path |-> j.path, demucs |-> j.demucs,
                     fault |-> j.fault, energy |-> j.energy, plan_bars |-> j.plan_bars,
                     model_loaded |-> FALSE, stems_a |-> "none", stems_b |-> "none",
                     raised |-> FALSE, mode |-> "NONE", bars |-> 0, error |-> FALSE]
    /\ UNCHANGED <<old_vars, new_vars, plan, sep, worker, files, reader>>

SeparateA ==
    /\ render.pc = "separate_a"
    /\ LET s == IF render.path = "executor"
                THEN executor_separate_stems(render.demucs, render.model_loaded,
                                             render.fault, "a")
                ELSE separate(render.demucs, render.model_loaded, render.fault, "a")
       IN  render' = [render EXCEPT !.stems_a = s.stems, !.model_loaded = s.model,
                                    !.raised = s.raised,
                                    !.pc = IF s.raised THEN "except" ELSE "separate_b"]
    /\ UNCHANGED <<old_vars, new_vars, plan, sep, worker, files, reader>>

SeparateB ==
    /\ render.pc = "separate_b"
    /\ LET s == IF render.path = "executor"
                THEN executor_separate_stems(render.demucs, render.model_loaded,
                                             render.fault, "b")
                ELSE separate(render.demucs, render.model_loaded, render.fault, "b")
       IN  render' = [render EXCEPT !.stems_b = s.stems, !.model_loaded = s.model,
                                    !.raised = s.raised,
                                    !.pc = IF s.raised THEN "except" ELSE "mix"]
    /\ UNCHANGED <<old_vars, new_vars, plan, sep, worker, files, reader>>

\* the stems, whatever they hold, are mixed and the stem result returned
MixStems ==
    /\ render.pc = "mix"
    /\ render' = [render EXCEPT !.pc = "done",
                                !.mode = IF render.path = "executor" THEN "STEM_BLEND"
                                         ELSE "STEMS",
                                !.bars = IF render.path = "noplan"
                                         THEN calculate_transition_bars(render.energy[1],
                                                                        render.energy[2])
                                         ELSE render.plan_bars]
    /\ UNCHANGED <<old_vars, new_vars, plan, sep, worker, files, reader>>

\* the except branch of the two generators
ExceptCrossfade ==
    /\ render.pc = "except"
    /\ render' = [render EXCEPT !.pc = "done", !.mode = "CROSSFADE",
                                !.bars = calculate_transition_bars(render.energy[1],
                                                                   render.energy[2]),
                                !.error = TRUE]
    /\ UNCHANGED <<old_vars, new_vars, plan, sep, worker, files, reader>>

NextRender ==
    \/ ReceiveRender
    \/ SeparateA
    \/ SeparateB
    \/ MixStems
    \/ ExceptCrossfade

SpecRender == InitRender /\ [][NextRender]_vars

\* the separator had no Demucs to run, or one of its calls failed
separator_missing_or_failed ==
    \/ ~render.demucs
    \/ render.raised
    \/ render.stems_a = "full_audio" \/ render.stems_b = "full_audio"

\* C11 as stated: whenever the stem separator is missing or fails during a
\* transition render, the result returned has the realized mode CROSSFADE.
C11_SeparatorTroubleGivesCrossfade ==
    (render.pc = "done" /\ separator_missing_or_failed) => render.mode = "CROSSFADE"

\* the part that holds: an exception raised by separate inside the two generators
\* ends in the except-branch crossfade
C11_RaisedGivesCrossfade ==
    (render.pc = "done" /\ render.raised) => (render.mode = "CROSSFADE" /\ render.error)

\* ---------------------------------------------------------------------------
\* Downgrades and the tag on the result (DraftTransitionResult.error).
\* ---------------------------------------------------------------------------

\* the order of the modes, lowest first
mode_rank(mode) ==
    IF mode = "HARD_CUT" THEN 0 ELSE IF mode = "CROSSFADE" THEN 1 ELSE 2

\* the mode asked for: the plan's type, or the stem blend when there is no plan
requested_mode(j) ==
    IF j.path = "plan" /\ j.plan_type # "STEM_BLEND" THEN j.plan_type ELSE "STEMS"

\* C13 as stated: a result realized in a lower mode than the one planned or
\* requested carries a tag that identifies the downgrade.
C13_DowngradeTagged ==
    (rpc = "done" /\ mode_rank(result.mode) < mode_rank(requested_mode(job)))
        => result.degraded

\* the part that holds: the crossfade of the except branch is tagged
C13_ExceptCrossfadeTagged ==
    (rpc = "done" /\ ~job.stems_ok /\ result.mode = "CROSSFADE"
        /\ ~(job.path = "noplan" /\ ~use_stems(job)))
        => result.degraded

\* ---------------------------------------------------------------------------
\* Planning a pair: compatibility scores, the LLM's answer, the fallback plan,
\* and the branch of the renderer the plan selects.
\* ---------------------------------------------------------------------------

\* abs(bpm_a - bpm_b) / bpm_a * 100 <= pct
bpm_diff_within(bpm_a, bpm_b, pct) == Abs(bpm_a - bpm_b) * 100 <= pct * bpm_a

_calculate_bpm_score(bpm_a, bpm_b) ==
    IF bpm_a <= 0 THEN 50
    ELSE IF bpm_diff_within(bpm_a, bpm_b, 2) THEN 100
    ELSE IF bpm_diff_within(bpm_a, bpm_b, 4) THEN 85
    ELSE IF bpm_diff_within(bpm_a, bpm_b, 6) THEN 70
    ELSE IF bpm_diff_within(bpm_a, bpm_b, 8) THEN 55
    ELSE 25

\* _fallback_plan: type and duration from the harmonic score and the BPM delta
_fallback_plan(harmonic, bpm_a, bpm_b) ==
    LET within(pct) == IF bpm_a > 0 THEN bpm_diff_within(bpm_a, bpm_b, pct) ELSE TRUE
        type_bars ==
            IF harmonic < 60 \/ ~within(6) THEN <<"HARD_CUT", 0>>
            ELSE IF harmonic >= 85 /\ within(2) THEN <<"STEM_BLEND", 16>>
            ELSE IF harmonic >= 70 /\ within(4) THEN <<"STEM_BLEND", 8>>
            ELSE <<"CROSSFADE", 8>>
    IN  [source |-> "fallback", type |-> type_bars[1], duration_bars |-> type_bars[2],
         bass_swap_bar |-> IF type_bars[2] = 16 THEN 9 ELSE IF type_bars[1] = "STEM_BLEND"
                                                            THEN 5 ELSE 0,
         phases |-> IF type_bars[1] = "STEM_BLEND" THEN 4 ELSE 0]

PlanTypes == {"STEM_BLEND", "CROSSFADE", "HARD_CUT", "FILTER_SWEEP", "ECHO_OUT"}

\* what comes back from the LLM call
LlmAnswerKinds ==
    {"valid", "api_error", "not_json", "not_object", "missing_type", "invalid_type",
     "invalid_duration", "invalid_bass_swap_bar", "invalid_phases"}

\* the answers that are JSON but not a plan of the documented shape
ShapeFailures ==
    {"not_object", "missing_type", "invalid_type", "invalid_duration",
     "invalid_bass_swap_bar", "invalid_phases"}

\* the JSON object of an answer that parses to one
llm_plan(kind, type, bars) ==
    [source |-> "llm",
     type |-> IF kind = "missing_type" THEN "absent"
              ELSE IF kind = "invalid_type" THEN "WOBBLE" ELSE type,
     duration_bars |-> IF kind = "invalid_duration" THEN -4 ELSE bars,
     bass_swap_bar |-> IF kind = "invalid_bass_swap_bar" THEN 99 ELSE bars \div 2 + 1,
     phases |-> IF kind = "invalid_phases" THEN -1 ELSE 4]

\* plan_transition: the fallback on an API error, on text that is not JSON and on
\* JSON that is not an object (plan.get raises); any JSON object is returned as is.
plan_transition(kind, type, bars, harmonic, bpm_a, bpm_b) ==
    IF kind \in {"api_error", "not_json", "not_object"}
    THEN _fallback_plan(harmonic, bpm_a, bpm_b)
    ELSE llm_plan(kind, type, bars)

\* the branch generate_draft_transition_with_plan takes for a plan
plan_branch(p) ==
    IF p.type \in {"FILTER_SWEEP", "ECHO_OUT", "HARD_CUT", "CROSSFADE"} THEN p.type
    ELSE "STEM_BLEND"

\* the branch generate_draft_transition takes without a plan
noplan_branch(bpm_a, bpm_b) ==
    IF bpm_diff_within(bpm_a, bpm_b, 8) THEN "STEMS" ELSE "CROSSFADE"

PlanBpmsA == {100, 120}
PlanBpmsB == {92, 97, 100, 103, 105, 106, 107, 109, 111, 120, 126, 131}
HarmonicScores == {40, 55, 60, 65, 75, 85, 90, 100}

NoPlan == [source |-> "none", type |-> "none", duration_bars |-> 0,
           bass_swap_bar |-> 0, phases |-> 0]

InitPlan ==
    /\ OldIdle
    /\ plan = [pc |-> "idle"]
    /\ render = Idle /\ sep = Idle /\ worker = Idle /\ files = Idle /\ reader = Idle
    /\ NewIdle

\* generate_draft_transition_from_job up to the compatibility scores
ReceivePair ==
    /\ plan.pc = "idle"
    /\ \E a \in PlanBpmsA, b \in PlanBpmsB, h \in HarmonicScores, keys \in BOOLEAN :
          plan' = [pc |-> IF keys THEN "scored" ELSE "planned",
                   bpm_a |-> a, bpm_b |-> b, harmonic |-> h, has_keys |-> keys,
                   bpm_score |-> IF keys THEN _calculate_bpm_score(a, b) ELSE 0,
                   answer |-> "none", handed |-> NoPlan, selected |-> "NONE"]
    /\ UNCHANGED <<old_vars, new_vars, render, sep, worker, files, reader>>

\* the LLM call and what plan_transition makes of its answer
PlanTransition ==
    /\ plan.pc = "scored"
    /\ \E kind \in LlmAnswerKinds, t \in PlanTypes, bars \in {8, 16} :
          plan' = [plan EXCEPT !.pc = "planned", !.answer = kind,
                               !.handed = plan_transition(kind, t, bars, plan.harmonic,
                                                          plan.bpm_a, plan.bpm_b)]
    /\ UNCHANGED <<old_vars, new_vars, render, sep, worker, files, reader>>

\* the renderer picks its branch from the plan, or without one
SelectBranch ==
    /\ plan.pc = "planned"
    /\ plan' = [plan EXCEPT !.pc = "done",
                            !.selected = IF plan.handed.source = "none"
                                         THEN noplan_branch(plan.bpm_a, plan.bpm_b)
                                         ELSE plan_branch(plan.handed)]
    /\ UNCHANGED <<old_vars, new_vars, render, sep, worker, files, reader>>

NextPlan ==
    \/ ReceivePair
    \/ PlanTransition
    \/ SelectBranch

SpecPlan == InitPlan /\ [][NextPlan]_vars

\* matching B's tempo to A's needs a ratio outside [0.92, 1.08]
stretch_beyond_limits(bpm_a, bpm_b) ==
    LET r == calculate_stretch_ratio(bpm_b, bpm_a).ratio
    IN  clamp_ratio(r) # r

\* C12 as stated: when the stretch needed is beyond +-8 %, the BPM score is 25 and
\* the type selected for the pair is HARD_CUT.
C12_BeyondStretchScore25HardCut ==
    (plan.pc = "done" /\ stretch_beyond_limits(plan.bpm_a, plan.bpm_b))
        => /\ plan.has_keys => plan.bpm_score = 25
           /\ plan.selected = "HARD_CUT"

\* the part that holds: the rule-based fallback plan is a HARD_CUT for such a pair
C12_FallbackHardCut ==
    (plan.pc = "done" /\ stretch_beyond_limits(plan.bpm_a, plan.bpm_b)
        /\ plan.handed.source = "fallback")
        => plan.selected = "HARD_CUT"

\* C14 as stated: when the LLM's JSON fails shape validation, the plan handed to
\* the renderer is the rule-based fallback plan.
C14_InvalidShapeGivesFallback ==
    (plan.pc \in {"planned", "done"} /\ plan.answer \in ShapeFailures)
        => plan.handed = _fallback_plan(plan.harmonic, plan.bpm_a, plan.bpm_b)

\* the table of the fallback plan, first matching row
fallback_table(harmonic, bpm_a, bpm_b) ==
    IF harmonic >= 85 /\ bpm_diff_within(bpm_a, bpm_b, 2) THEN <<"STEM_BLEND", 16>>
    ELSE IF harmonic >= 70 /\ bpm_diff_within(bpm_a, bpm_b, 4) THEN <<"STEM_BLEND", 8>>
    ELSE IF harmonic >= 60 /\ bpm_diff_within(bpm_a, bpm_b, 5) THEN <<"CROSSFADE", 8>>
    ELSE IF harmonic >= 50 /\ bpm_diff_within(bpm_a, bpm_b, 6) THEN <<"FILTER_SWEEP", 8>>
    ELSE <<"HARD_CUT", 0>>

\* C15 as stated: for every harmonic score and BPM difference the fallback plan
\* has the type and the duration of the first matching row of the table.
C15_FallbackFollowsTable ==
    (plan.pc \in {"planned", "done"} /\ plan.handed.source = "fallback")
        => <<plan.handed.type, plan.handed.duration_bars>>
              = fallback_table(plan.harmonic, plan.bpm_a, plan.bpm_b)

\* ---------------------------------------------------------------------------
\* The global stem separator under concurrent callers. The queue worker runs
\* each job in a thread of the default executor; every thread that reaches
\* separate_stems goes through get_separator and StemSeparator.separate.
\* ---------------------------------------------------------------------------

SepThreads == 3

Threads == 1..SepThreads

InitSep ==
    /\ OldIdle
    /\ sep = [global |-> 0,                          \* _global_separator, 0 for None
              created |-> 0,                         \* StemSeparator() calls so far
              model |-> [i \in Threads |-> FALSE],   \* instance i has its model
              loads |-> 0,                           \* load_model calls that loaded
              pc |-> [t \in Threads |-> "idle"],
              mine |-> [t \in Threads |-> 0]]        \* the instance t works on
    /\ render = Idle /\ plan = Idle /\ worker = Idle /\ files = Idle /\ reader = Idle
    /\ NewIdle

\* a job thread calls separate_stems
CallSeparateStems(t) ==
    /\ sep.pc[t] = "idle"
    /\ sep' = [sep EXCEPT !.pc[t] = "get_separator"]
    /\ UNCHANGED <<old_vars, new_vars, render, plan, worker, files, reader>>

\* get_separator: if _global_separator is None
CheckGlobal(t) ==
    /\ sep.pc[t] = "get_separator"
    /\ sep' = [sep EXCEPT !.pc[t] = IF sep.global = 0 THEN "create" ELSE "return"]
    /\ UNCHANGED <<old_vars, new_vars, render, plan, worker, files, reader>>

\* get_separator: _global_separator = StemSeparator()
CreateSeparator(t) ==
    /\ sep.pc[t] = "create"
    /\ sep' = [sep EXCEPT !.created = @ + 1, !.global = sep.created + 1,
                          !.pc[t] = "return"]
    /\ UNCHANGED <<old_vars, new_vars, render, plan, worker, files, reader>>

\* get_separator: return _global_separator
ReturnSeparator(t) ==
    /\ sep.pc[t] = "return"
    /\ sep' = [sep EXCEPT !.mine[t] = sep.global, !.pc[t] = "check_model"]
    /\ UNCHANGED <<old_vars, new_vars, render, plan, worker, files, reader>>

\* separate: if self.model is None
CheckModel(t) ==
    /\ sep.pc[t] = "check_model"
    /\ sep' = [sep EXCEPT !.pc[t] = IF sep.model[sep.mine[t]] THEN "apply" ELSE "load"]
    /\ UNCHANGED <<old_vars, new_vars, render, plan, worker, files, reader>>

\* load_model begins: get_model(...) fetches and builds the network
StartLoad(t) ==
    /\ sep.pc[t] = "load"
    /\ sep' = [sep EXCEPT !.loads = @ + 1, !.pc[t] = "loading"]
    /\ UNCHANGED <<old_vars, new_vars, render, plan, worker, files, reader>>

\* load_model: self.model is assigned, moved to the device, put in eval mode
FinishLoad(t) ==
    /\ sep.pc[t] = "loading"
    /\ sep' = [sep EXCEPT !.model[sep.mine[t]] = TRUE, !.pc[t] = "apply"]
    /\ UNCHANGED <<old_vars, new_vars, render, plan, worker, files, reader>>

\* apply_model on the caller's audio; the stems are returned
ApplyModel(t) ==
    /\ sep.pc[t] = "apply"
    /\ sep' = [sep EXCEPT !.pc[t] = "done"]
    /\ UNCHANGED <<old_vars, new_vars, render, plan, worker, files, reader>>

NextSep ==
    \/ \E t \in Threads : CallSeparateStems(t)
    \/ \E t \in Threads : CheckGlobal(t)
    \/ \E t \in Threads : CreateSeparator(t)
    \/ \E t \in Threads : ReturnSeparator(t)
    \/ \E t \in Threads : CheckModel(t)
    \/ \E t \in Threads : StartLoad(t)
    \/ \E t \in Threads : FinishLoad(t)
    \/ \E t \in Threads : ApplyModel(t)

SpecSep == InitSep /\ [][NextSep]_vars

\* C16 as stated: with several threads asking before the model is loaded, one
\* separator instance is created and its model is loaded once; the other callers
\* wait for that load and start none of their own.
C16_OneInstanceOneLoad ==
    /\ sep.created <= 1
    /\ sep.loads <= 1

\* what the code does give: a caller applies a model only once the instance it
\* holds has one
C16_ApplyAfterLoad ==
    \A t \in Threads : sep.pc[t] \in {"apply", "done"} => sep.model[sep.mine[t]]

\* ---------------------------------------------------------------------------
\* A draft-transition job in the queue worker: the processor receives the job
\* and its token, runs the generator in the executor, publishes, returns.
\* ---------------------------------------------------------------------------

Stages == <<"decode", "separate_a", "separate_b", "mix", "encode">>

StageNames == {Stages[k] : k \in 1..Len(Stages)}

\* the stage after position k of a job, "publish" after the last
stage_after(k) == IF k < Len(Stages) THEN Stages[k + 1] ELSE "publish"

InitWorker ==
    /\ OldIdle
    /\ worker = [pc |-> "idle"]
    /\ render = Idle /\ plan = Idle /\ sep = Idle /\ files = Idle /\ reader = Idle
    /\ NewIdle

\* draft_transition_job_processor(job, token) -> process_draft_transition_job
ReceiveDraftJob ==
    /\ worker.pc = "idle"
    /\ \E fault \in StageNames \cup {"none", "publish"}, with_plan \in BOOLEAN :
          worker' = [pc |-> "running", k |-> 0, stage |-> "received",
                     fault |-> fault, with_plan |-> with_plan,
                     signalled |-> FALSE, after_signal |-> {},
                     outcome |-> "none", failure |-> "none"]
    /\ UNCHANGED <<old_vars, new_vars, render, plan, sep, files, reader>>

\* the job's token is signalled while the job runs; nothing in the worker reads it
SignalToken ==
    /\ worker.pc = "running"
    /\ ~worker.signalled
    /\ worker' = [worker EXCEPT !.signalled = TRUE]
    /\ UNCHANGED <<old_vars, new_vars, render, plan, sep, files, reader>>

\* the generator goes on to its next stage
StartStage ==
    /\ worker.pc = "running"
    /\ worker.k < Len(Stages)
    /\ worker.stage # worker.fault
    /\ worker' = [worker EXCEPT !.k = @ + 1, !.stage = stage_after(worker.k),
                                !.after_signal = IF worker.signalled
                                                 THEN @ \cup {stage_after(worker.k)} ELSE @]
    /\ UNCHANGED <<old_vars, new_vars, render, plan, sep, files, reader>>

\* a stage raises and the error leaves the generator: the except branch of
\* process_draft_transition_job publishes the error text and raises again
StageRaises ==
    /\ worker.pc = "running"
    /\ worker.stage = worker.fault
    /\ worker' = [worker EXCEPT !.pc = "ended", !.outcome = "failed",
                                !.failure = "Exception"]
    /\ UNCHANGED <<old_vars, new_vars, render, plan, sep, files, reader>>

\* the generator has returned: publish_result
PublishResult ==
    /\ worker.pc = "running"
    /\ worker.k = Len(Stages) /\ worker.stage = "encode" /\ worker.fault # "encode"
    /\ worker' = [worker EXCEPT !.stage = "publish"]
    /\ UNCHANGED <<old_vars, new_vars, render, plan, sep, files, reader>>

\* the processor returns the result: the job is completed
ReturnResult ==
    /\ worker.pc = "running"
    /\ worker.stage = "publish" /\ worker.fault # "publish"
    /\ worker' = [worker EXCEPT !.pc = "ended", !.outcome = "completed"]
    /\ UNCHANGED <<old_vars, new_vars, render, plan, sep, files, reader>>

NextWorker ==
    \/ ReceiveDraftJob
    \/ SignalToken
    \/ StartStage
    \/ StageRaises
    \/ PublishResult
    \/ ReturnResult

SpecWorker == InitWorker /\ [][NextWorker]_vars

\* C17 as stated: once the job's token has been signalled the worker starts no
\* further stage of the job, and the job ends with a typed Cancelled failure.
C17_SignalStopsStages ==
    /\ worker.pc # "idle" => worker.after_signal = {}
    /\ (worker.pc = "ended" /\ worker.signalled)
          => (worker.outcome = "failed" /\ worker.failure = "Cancelled")

\* ---------------------------------------------------------------------------
\* WAV files written on the way: ensure_wav_format (source conversion) and
\* _export_mp3 (encoder intermediate).
\* ---------------------------------------------------------------------------

FileOps == {"ensure_wav_format", "export_mp3"}

\* what the environment does to an operation
FileEnvs ==
    [suffix : {".wav", ".m4a", ".mp3"},       \* of the source
     wav_sibling : BOOLEAN,                    \* source.wav is already there
     ffmpeg : {"ok", "fails", "missing"},
     partial : BOOLEAN,                        \* a failing ffmpeg leaves output behind
     sf_write : {"ok", "raises"},
     pydub : {"ok", "raises"}]

InitFiles ==
    /\ OldIdle
    /\ files = [pc |-> "idle"]
    /\ render = Idle /\ plan = Idle /\ sep = Idle /\ worker = Idle /\ reader = Idle
    /\ NewIdle

CallFileOp ==
    /\ files.pc = "idle"
    /\ \E op \in FileOps, env \in FileEnvs :
          files' = [pc |-> "called", op |-> op, env |-> env,
                    wav_created |-> FALSE,    \* this operation wrote a WAV file
                    wav_exists |-> FALSE,     \* and that file is on disk
                    tmp_mp3 |-> FALSE, output |-> FALSE, outcome |-> "none"]
    /\ UNCHANGED <<old_vars, new_vars, render, plan, sep, worker, reader>>

\* ensure_wav_format: a WAV source, or a WAV sibling already there: no conversion
EnsureWavNoConversion ==
    /\ files.pc = "called" /\ files.op = "ensure_wav_format"
    /\ files.env.suffix = ".wav" \/ files.env.wav_sibling
    /\ files' = [files EXCEPT !.pc = "ended", !.outcome = "returned"]
    /\ UNCHANGED <<old_vars, new_vars, render, plan, sep, worker, reader>>

\* ensure_wav_format: ffmpeg writes source.wav next to the source; its path is
\* returned on success, the source's path when ffmpeg fails or is not installed
EnsureWavConvert ==
    /\ files.pc = "called" /\ files.op = "ensure_wav_format"
    /\ ~(files.env.suffix = ".wav" \/ files.env.wav_sibling)
    /\ LET written == \/ files.env.ffmpeg = "ok"
                      \/ files.env.ffmpeg = "fails" /\ files.env.partial
       IN  files' = [files EXCEPT !.pc = "ended", !.outcome = "returned",
                                  !.wav_created = written, !.wav_exists = written]
    /\ UNCHANGED <<old_vars, new_vars, render, plan, sep, worker, reader>>

\* _export_mp3: NamedTemporaryFile(suffix='.wav', delete=False) and sf.write
\* inside the with block, before the try
ExportWriteTempWav ==
    /\ files.pc = "called" /\ files.op = "export_mp3"
    /\ files' = IF files.env.sf_write = "raises"
                THEN [files EXCEPT !.pc = "ended", !.outcome = "raised",
                                   !.wav_created = TRUE, !.wav_exists = TRUE]
                ELSE [files EXCEPT !.pc = "tmp_wav", !.wav_created = TRUE,
                                   !.wav_exists = TRUE]
    /\ UNCHANGED <<old_vars, new_vars, render, plan, sep, worker, reader>>

\* the second NamedTemporaryFile, for the MP3
ExportCreateTempMp3 ==
    /\ files.pc = "tmp_wav"
    /\ files' = [files EXCEPT !.pc = "try", !.tmp_mp3 = TRUE]
    /\ UNCHANGED <<old_vars, new_vars, render, plan, sep, worker, reader>>

\* try: ffmpeg, then the temporary MP3 moved to output_path (a non-zero return
\* code is only logged); finally: both temporary files unlinked
ExportEncode ==
    /\ files.pc = "try"
    /\ files.env.ffmpeg # "missing"
    /\ files' = [files EXCEPT !.pc = "ended", !.outcome = "returned", !.output = TRUE,
                              !.tmp_mp3 = FALSE, !.wav_exists = FALSE]
    /\ UNCHANGED <<old_vars, new_vars, render, plan, sep, worker, reader>>

\* except: subprocess.run raised, pydub exports instead (or raises in turn);
\* finally: both temporary files unlinked
ExportFallback ==
    /\ files.pc = "try"
    /\ files.env.ffmpeg = "missing"
    /\ files' = [files EXCEPT !.pc = "ended",
                              !.outcome = IF files.env.pydub = "ok" THEN "returned"
                                          ELSE "raised",
                              !.output = files.env.pydub = "ok",
                              !.tmp_mp3 = FALSE, !.wav_exists = FALSE]
    /\ UNCHANGED <<old_vars, new_vars, render, plan, sep, worker, reader>>

NextFiles ==
    \/ CallFileOp
    \/ EnsureWavNoConversion
    \/ EnsureWavConvert
    \/ ExportWriteTempWav
    \/ ExportCreateTempMp3
    \/ ExportEncode
    \/ ExportFallback

SpecFiles == InitFiles /\ [][NextFiles]_vars

\* C19 as stated: a WAV file written while converting a source or encoding an MP3
\* is gone when the operation returns or raises.
C19_TempWavGone ==
    (files.pc = "ended" /\ files.wav_created) => ~files.wav_exists

\* the part that holds: once _export_mp3 is inside its try, both temporary files
\* are gone at the end, whatever ffmpeg and pydub do
C19_ExportTryCleansUp ==
    (files.pc = "ended" /\ files.op = "export_mp3" /\ files.env.sf_write = "ok")
        => (~files.wav_exists /\ ~files.tmp_mp3)

\* ---------------------------------------------------------------------------
\* Solo segments after the adjustment to the cut points.
\* ---------------------------------------------------------------------------

\* the SOLO at out[k] had a bound set by the transition after it or before it
solo_adjusted(k) ==
    \/ k + 1 <= Len(mix.out) /\ mix.reports[k + 1].adjusted_a
    \/ k - 1 >= 1 /\ mix.reports[k - 1].adjusted_b

\* C20 as stated: in the list returned by generate_mix_for_project, after the solo
\* bounds were adjusted to the reported cut points, no SOLO segment has a duration
\* of 0 or less.
C20_NoEmptySoloReturned ==
    MixDone => \A k \in 1..Len(mix.out) :
                  (mix.out[k].type = "SOLO" /\ solo_adjusted(k)) => mix.out[k].durationMs > 0

\* the part that holds: for two tracks or more, every SOLO that calculate_segments
\* hands to the loop has a duration above 0
C20_NoEmptySoloCalculated ==
    (mix.pc # "idle" /\ Len(mix.tracks) >= 2) =>
        \A k \in 1..Len(calculate_segments(mix.tracks)) :
            calculate_segments(mix.tracks)[k].type = "SOLO"
                => calculate_segments(mix.tracks)[k].duration_ms > 0

\* ---------------------------------------------------------------------------
\* The reader of a mix: process_mix_job runs generate_mix_for_project in the
\* executor and publishes the dictionary it returns; the segment list is local
\* to the generator until then.
\* ---------------------------------------------------------------------------

NothingPublished == [pc |-> "waiting", segments |-> <<>>, reports |-> <<>>, seen |-> <<>>]

InitMixRead ==
    /\ mix = [pc |-> "idle"]
    /\ job = NoJob /\ rpc = "off" /\ a_cue_time = 0 /\ a_cue_beat_idx = -1
    /\ cue_hist = NoHist /\ result = NoResult
    /\ bass = Idle /\ vocal = Idle /\ stretch = Idle
    /\ render = Idle /\ plan = Idle /\ sep = Idle /\ worker = Idle /\ files = Idle
    /\ NewIdle
    /\ reader = NothingPublished

\* publish_result(result_type="mix", result=result)
PublishMix ==
    /\ mix.pc = "done"
    /\ reader.pc = "waiting"
    /\ reader' = [reader EXCEPT !.pc = "published", !.segments = mix.out,
                                !.reports = mix.reports]
    /\ UNCHANGED <<old_vars, new_vars, render, plan, sep, worker, files>>

\* a reader takes the segments of the published mix
ReadSegments ==
    /\ reader.pc = "published"
    /\ reader' = [reader EXCEPT !.pc = "read", !.seen = reader.segments]
    /\ UNCHANGED <<old_vars, new_vars, render, plan, sep, worker, files>>

NextMixRead ==
    \/ NextMix
    \/ PublishMix
    \/ ReadSegments

SpecMixRead == InitMixRead /\ [][NextMixRead]_vars

\* in what the reader saw: a rendered TRANSITION at k + 1 between two SOLOs
SeenQuadruple(k) ==
    /\ k + 2 <= Len(reader.seen)
    /\ reader.seen[k].type = "SOLO"
    /\ reader.seen[k + 1].type = "TRANSITION" /\ reader.reports[k + 1].rendered
    /\ reader.seen[k + 2].type = "SOLO"

\* C18: for each transition a reader sees between two solos, either both solo
\* bounds were set to the reported cut points (Solo A's end to track_a_cut_ms and
\* Solo B's start to track_b_start_ms) or neither was.
C18_ReaderSeesBothOrNeither ==
    \A k \in 1..Len(reader.seen) :
        SeenQuadruple(k) =>
            LET r == reader.reports[k + 1]
            IN  /\ r.adjusted_a <=> r.adjusted_b
                /\ r.adjusted_a => reader.seen[k].endMs = r.track_a_cut_ms
                /\ r.adjusted_b => reader.seen[k + 2].startMs = r.track_b_start_ms

C18_Witness ==
    /\ reader.pc = "read"
    /\ \E k \in 1..Len(reader.seen) :
          /\ SeenQuadruple(k)
          /\ reader.reports[k + 1].adjusted_a /\ reader.reports[k + 1].adjusted_b
          /\ reader.seen[k].endMs = reader.reports[k + 1].track_a_cut_ms
          /\ reader.seen[k + 2].startMs = reader.reports[k + 1].track_b_start_ms
          /\ reader.seen[k + 2].startMs # mix.tracks[reader.seen[k + 2].trackId].intro_end_ms

\* ---------------------------------------------------------------------------
\* Length of the rendered audio.
\* ---------------------------------------------------------------------------

\* C21 as stated: the number of samples of every rendered blend (stems or
\* crossfade) is duration_bars * 4 * 60 / bpm_a * sr to within one sample, also
\* when track A is too short for the window or the cue was capped at 0.
C21_LengthContract ==
    (rpc = "done" /\ result.mode \in {"STEMS", "CROSSFADE"})
        => Abs(result.min_len - bars_to_samples(TransitionBars(job), job.bpm_a)) <= 1

----------------------------------------------------------------------------
\* C22 as stated: every rendered transition, also one shortened by the vocal-clash
\* resolution, lasts a number of bars in {4, 8, 16, 24, 32}.
C22_BarsInAllowedSet ==
    (vocal.pc = "done" /\ vocal.out.mode \in {"STEMS", "CROSSFADE"})
        => \E b \in {4, 8, 16, 24, 32} : vocal.out.dur_ms = b * (240000 \div vocal.bpm)

----------------------------------------------------------------------------
\* vocal-free intro of track B as the check sees it: the first region that starts at 0
intro_b_of(v) ==
    LET rb == analyze_track_enriched(v.vocals_b, bars_to_ms(v.bars, v.bpm)).vocal_free_regions
        intros == {k \in 1..Len(rb) : rb[k][1] = 0}
    IN  IF intros = {} THEN 0 ELSE rb[SetMin(intros)][2] - rb[SetMin(intros)][1]

\* B's intro is shorter than the planned transition and at least 4 bars long
intro_short_but_usable(v) ==
    /\ v.path \in {"plan_stem_blend", "plan_stem_blend_phases"}
    /\ intro_b_of(v) < bars_to_ms(v.bars, v.bpm)
    /\ intro_b_of(v) \div (240000 \div v.bpm) >= MIN_TRANSITION_BARS

\* C30 as stated: with such an intro the transition is shortened to the intro
\* snapped down to whole bars, and no hard cut is forced.
C30_ShortenedToIntroBars ==
    (vocal.pc = "done" /\ intro_short_but_usable(vocal))
        => /\ vocal.out.mode = "STEMS"
           /\ vocal.out.dur_ms
                = (intro_b_of(vocal) \div (240000 \div vocal.bpm)) * (240000 \div vocal.bpm)

\* C30 amended: with such an intro no hard cut is forced and the transition is
\* shortened to one bar less than the whole bars of the intro, but never below
\* 4 bars.
C30_ShortenedWithMargin ==
    (vocal.pc = "done" /\ intro_short_but_usable(vocal))
        => /\ vocal.out.mode = "STEMS"
           /\ ~vocal.vocal_check.force_hard_cut
           /\ vocal.out.dur_ms
                = Max2(intro_b_of(vocal) \div (240000 \div vocal.bpm) - 1, MIN_TRANSITION_BARS)
                    * (240000 \div vocal.bpm)

\* a 16-bar plan at 120 BPM, B's vocals starting at 20 s, rendered as 9 bars
C30_Witness ==
    /\ vocal.pc = "done" /\ intro_short_but_usable(vocal)
    /\ vocal.bars = 16 /\ vocal.bpm = 120
    /\ intro_b_of(vocal) = 20000
    /\ vocal.out.mode = "STEMS" /\ vocal.out.dur_ms = 18000

----------------------------------------------------------------------------
(* Compatibility scores of a pair of tracks: theory/camelot.py and the scores
   the draft generator computes for the planner *)

Camelot(num, mode) == [num |-> num, mode |-> mode]

CamelotCodes == {Camelot(n, m) : n \in 1..12, m \in {"A", "B"}}

\* a key that is empty or that get_camelot_from_key does not know
NoKey == [num |-> 0, mode |-> "none"]

\* theory/camelot.py: the score and the type of the first case that matches
calculate_harmonic_compatibility(key_a, key_b) ==
    LET raw_distance == Abs(key_a.num - key_b.num)
        distance == Min2(raw_distance, 12 - raw_distance)
        same_mode == key_a.mode = key_b.mode
    IN  IF key_a = NoKey \/ key_b = NoKey THEN [score |-> 50, type |-> "UNKNOWN"]
        ELSE IF key_a = key_b THEN [score |-> 100, type |-> "PERFECT"]
        ELSE IF distance = 1 /\ same_mode THEN [score |-> 95, type |-> "ADJACENT"]
        ELSE IF key_a.num = key_b.num /\ ~same_mode THEN [score |-> 90, type |-> "RELATIVE"]
        ELSE IF distance = 1 /\ ~same_mode THEN [score |-> 80, type |-> "DIAGONAL"]
        ELSE IF distance = 7 /\ same_mode THEN [score |-> 75, type |-> "DOMINANT"]
        ELSE IF distance = 2 /\ same_mode THEN [score |-> 70, type |-> "ENERGY_SHIFT"]
        ELSE IF distance = 5 /\ same_mode THEN [score |-> 70, type |-> "SUBDOMINANT"]
        ELSE IF distance = 2 /\ ~same_mode THEN [score |-> 60, type |-> "DISTANT_DIAGONAL"]
        ELSE IF distance = 3 /\ same_mode THEN [score |-> 50, type |-> "DISTANT"]
        ELSE [score |-> 30, type |-> "INCOMPATIBLE"]

\* draft_transition_generator.py: the harmonic score handed to the planner
_calculate_harmonic_score(key_a, key_b) ==
    LET diff == Abs(key_a.num - key_b.num)
    IN  IF key_a = NoKey \/ key_b = NoKey THEN 50
        ELSE IF key_a = key_b THEN 100
        ELSE IF key_a.mode = key_b.mode
        THEN (IF diff = 0 THEN 100
              ELSE IF diff = 1 \/ diff = 11 THEN 90
              ELSE IF diff = 2 \/ diff = 10 THEN 60
              ELSE IF diff = 7 \/ diff = 5 THEN 65
              ELSE 40)
        ELSE (IF key_a.num = key_b.num THEN 85
              ELSE IF diff = 1 \/ diff = 11 THEN 75
              ELSE 40)

WheelKeys == CamelotCodes \cup {NoKey}
WheelBpmsA == {63, 126, 128}
WheelBpmsB == {63, 126, 130, 252}

NoCompat == [score |-> 0, type |-> "none"]

InitWheel ==
    /\ OldIdle
    /\ render = Idle /\ plan = Idle /\ sep = Idle /\ worker = Idle /\ files = Idle
    /\ reader = Idle /\ setpos = Idle
    /\ wheel = [pc |-> "idle"]

\* two analysed tracks: their Camelot keys and tempos
ReceiveTrackPair ==
    /\ wheel.pc = "idle"
    /\ \E ka \in WheelKeys, kb \in WheelKeys, ba \in WheelBpmsA, bb \in WheelBpmsB :
          wheel' = [pc |-> "received", key_a |-> ka, key_b |-> kb, bpm_a |-> ba, bpm_b |-> bb,
                    compat |-> NoCompat, harmonic_score |-> 0, bpm_score |-> 0,
                    mode |-> "NONE"]
    /\ UNCHANGED <<old_vars, render, plan, sep, worker, files, reader, setpos>>

\* calculate_harmonic_compatibility(key_a, key_b)
HarmonicCompatibility ==
    /\ wheel.pc = "received"
    /\ wheel' = [wheel EXCEPT !.pc = "theory",
                   !.compat = calculate_harmonic_compatibility(wheel.key_a, wheel.key_b)]
    /\ UNCHANGED <<old_vars, render, plan, sep, worker, files, reader, setpos>>

\* the compatibility data of _get_llm_transition_plan, scores not provided by the job
DraftCompatibility ==
    /\ wheel.pc = "theory"
    /\ wheel' = [wheel EXCEPT !.pc = "scored",
                   !.harmonic_score = _calculate_harmonic_score(wheel.key_a, wheel.key_b),
                   !.bpm_score = _calculate_bpm_score(wheel.bpm_a, wheel.bpm_b)]
    /\ UNCHANGED <<old_vars, render, plan, sep, worker, files, reader, setpos>>

\* generate_draft_transition: stems when the tempos are within 8 %, else the crossfade
RenderPair ==
    /\ wheel.pc = "scored"
    /\ wheel' = [wheel EXCEPT !.pc = "rendered",
                   !.mode = IF use_stems(wheel) THEN "STEMS" ELSE "CROSSFADE"]
    /\ UNCHANGED <<old_vars, render, plan, sep, worker, files, reader, setpos>>

NextWheel ==
    \/ ReceiveTrackPair
    \/ HarmonicCompatibility
    \/ DraftCompatibility
    \/ RenderPair

SpecWheel == InitWheel /\ [][NextWheel]_vars

\* the table of the specification: circular distance d, first matching case
harmonic_table(key_a, key_b) ==
    LET d == Min2(Abs(key_a.num - key_b.num), 12 - Abs(key_a.num - key_b.num))
        same_mode == key_a.mode = key_b.mode
    IN  CASE key_a = key_b -> 100
          [] key_a # key_b /\ d = 1 /\ same_mode -> 95
          [] d = 0 /\ ~same_mode -> 90
          [] d = 1 /\ ~same_mode -> 80
          [] d = 2 /\ same_mode -> 70
          [] d = 5 /\ same_mode -> 70
          [] d = 2 /\ ~same_mode -> 60
          [] d = 3 /\ same_mode -> 50
          [] OTHER -> 30

\* C23 as stated: for every pair of Camelot codes the harmonic score, the one of
\* calculate_harmonic_compatibility and the one the draft generator hands to the
\* planner, is the score of the first matching case of the table.
C23_HarmonicScoreFollowsTable ==
    (/\ wheel.pc \in {"scored", "rendered"}
     /\ wheel.key_a \in CamelotCodes /\ wheel.key_b \in CamelotCodes)
        => /\ wheel.compat.score = harmonic_table(wheel.key_a, wheel.key_b)
           /\ wheel.harmonic_score = harmonic_table(wheel.key_a, wheel.key_b)

\* the table holds for calculate_harmonic_compatibility alone
C23_CamelotFollowsTable ==
    (/\ wheel.pc \in {"theory", "scored", "rendered"}
     /\ wheel.key_a \in CamelotCodes /\ wheel.key_b \in CamelotCodes)
        => wheel.compat.score = harmonic_table(wheel.key_a, wheel.key_b)

\* key_b is 7 steps forward of key_a on the wheel, same mode, wrapping past 12
seven_forward(key_a, key_b) ==
    /\ key_a \in CamelotCodes /\ key_b \in CamelotCodes
    /\ key_a.mode = key_b.mode
    /\ key_b.num = ((key_a.num + 7 - 1) % 12) + 1

\* C24 as stated: a move of 7 steps forward in the same mode (8A to 3A, 6A to 1A)
\* scores exactly 75 in calculate_harmonic_compatibility.
C24_SevenForwardScores75 ==
    (wheel.pc \in {"theory", "scored", "rendered"} /\ seven_forward(wheel.key_a, wheel.key_b))
        => wheel.compat.score = 75

\* the best of the direct, the doubled and the halved comparison of bpm_b with bpm_a
best_bpm_score(bpm_a, bpm_b) ==
    SetMax({_calculate_bpm_score(bpm_a, bpm_b),
            _calculate_bpm_score(bpm_a, 2 * bpm_b),
            _calculate_bpm_score(2 * bpm_a, bpm_b)})

\* C25 as stated: when bpm_b doubled or halved scores strictly better than the
\* direct comparison, the better score is used, and a pair that matches at a
\* factor of two (126 vs 63) is rendered as a match, with stems.
C25_HalfDoubleTempoScored ==
    (/\ wheel.pc \in {"scored", "rendered"}
     /\ best_bpm_score(wheel.bpm_a, wheel.bpm_b)
            > _calculate_bpm_score(wheel.bpm_a, wheel.bpm_b))
        => /\ wheel.bpm_score = best_bpm_score(wheel.bpm_a, wheel.bpm_b)
           /\ wheel.pc = "rendered" => wheel.mode = "STEMS"

----------------------------------------------------------------------------
(* The position of a transition in the set: energy/set_manager.py and the
   position the planner is given (llm/planner.py) *)

MaxSetTracks == 8

\* PHASE_CONFIGS[phase].transition_bars
phase_transition_bars(phase) ==
    CASE phase = "WARMUP" -> <<32, 64>>
      [] phase = "PEAK" -> <<8, 16>>
      [] phase = "COOLDOWN" -> <<32, 64>>
      [] OTHER -> <<16, 32>>

\* set_manager.determine_set_phase with no elapsed time: progress = index / total
determine_set_phase(track_index, total_tracks) ==
    IF total_tracks <= 0 THEN "PEAK"
    ELSE IF 4 * track_index < total_tracks THEN "WARMUP"
    ELSE IF 2 * track_index < total_tracks THEN "BUILD"
    ELSE IF 4 * track_index < 3 * total_tracks THEN "PEAK"
    ELSE "COOLDOWN"

\* planner.determine_set_position: position_ratio = index / (total - 1)
determine_set_position(track_index, total_tracks) ==
    IF total_tracks <= 1 THEN "BUILD"
    ELSE IF 5 * track_index < total_tracks - 1 THEN "WARMUP"
    ELSE IF 2 * track_index < total_tracks - 1 THEN "BUILD"
    ELSE IF 5 * track_index < 4 * (total_tracks - 1) THEN "PEAK"
    ELSE "COOLDOWN"

\* set_manager.get_transition_recommendations; energies and confidence in percent
get_transition_recommendations(phase, current_energy, next_energy, harmonic_score, bpm_a, bpm_b) ==
    LET bars == phase_transition_bars(phase)
        by_harmony ==
            IF harmonic_score >= 90
            THEN [type |-> "STEM_BLEND", bars |-> bars[2], confidence |-> 95, warnings |-> {}]
            ELSE IF harmonic_score >= 70
            THEN [type |-> "STEM_BLEND", bars |-> (bars[1] + bars[2]) \div 2,
                  confidence |-> 90, warnings |-> {}]
            ELSE IF harmonic_score >= 50
            THEN [type |-> "FILTER_SWEEP", bars |-> bars[1], confidence |-> 90,
                  warnings |-> {"MARGINAL_HARMONIC_COMPATIBILITY"}]
            ELSE [type |-> "HARD_CUT", bars |-> 0, confidence |-> 85,
                  warnings |-> {"HARD_CUT_REQUIRED_HARMONIC_CLASH"}]
        by_bpm ==
            IF ~bpm_diff_within(bpm_a, bpm_b, 6)
            THEN [type |-> "HARD_CUT", bars |-> 0,
                  confidence |-> Min2(by_harmony.confidence, 80),
                  warnings |-> by_harmony.warnings \cup {"BPM_DIFFERENCE_TOO_LARGE"}]
            ELSE IF ~bpm_diff_within(bpm_a, bpm_b, 4)
            THEN [by_harmony EXCEPT !.warnings = @ \cup {"BPM_STRETCH_AUDIBLE"}]
            ELSE by_harmony
        energy_delta == next_energy - current_energy
        energy_warnings ==
            CASE phase = "WARMUP" /\ energy_delta > 30 -> {"ENERGY_JUMP_TOO_LARGE_FOR_WARMUP"}
              [] phase = "PEAK" /\ next_energy < 70 -> {"LOW_ENERGY_TRACK_DURING_PEAK"}
              [] phase = "COOLDOWN" /\ energy_delta > 20 -> {"ENERGY_INCREASE_DURING_COOLDOWN"}
              [] phase \notin {"WARMUP", "PEAK", "COOLDOWN"} /\ energy_delta < -20
                    -> {"ENERGY_DROP_DURING_BUILD_PHASE"}
              [] OTHER -> {}
    IN  [phase |-> phase,
         suggested_type |-> by_bpm.type,
         suggested_bars |-> by_bpm.bars,
         bass_swap_bar |-> Max2(1, by_bpm.bars \div 2),
         warnings |-> by_bpm.warnings \cup energy_warnings,
         confidence |-> by_bpm.confidence]

SetEnergiesA == {50, 80, 95}
SetEnergiesB == {60, 75, 95}
SetHarmonicScores == {40, 55, 75, 100}
SetBpmsB == {129, 134, 140}

NoRecommendation ==
    [phase |-> "none", suggested_type |-> "none", suggested_bars |-> 0, bass_swap_bar |-> 0,
     warnings |-> {}, confidence |-> 0]

InitSet ==
    /\ OldIdle
    /\ render = Idle /\ plan = Idle /\ sep = Idle /\ worker = Idle /\ files = Idle
    /\ reader = Idle /\ wheel = Idle
    /\ setpos = [pc |-> "idle"]

\* a transition job of a set: its index, the set's size, the pair's energies and scores
ReceiveSetJob ==
    /\ setpos.pc = "idle"
    /\ \E total \in 1..MaxSetTracks, ea \in SetEnergiesA, eb \in SetEnergiesB,
          h \in SetHarmonicScores, bb \in SetBpmsB :
         \E idx \in 0..(total - 1) :
            setpos' = [pc |-> "received", track_index |-> idx, total_tracks |-> total,
                       energy_a |-> ea, energy_b |-> eb, harmonic |-> h,
                       bpm_a |-> 128, bpm_b |-> bb,
                       phase |-> "none", position |-> "none",
                       rec |-> NoRecommendation, handed |-> NoPlan]
    /\ UNCHANGED <<old_vars, render, plan, sep, worker, files, reader, wheel>>

\* calculate_energy_trajectory: determine_set_phase(i, len(tracks))
DetermineSetPhase ==
    /\ setpos.pc = "received"
    /\ setpos' = [setpos EXCEPT !.pc = "phased",
                    !.phase = determine_set_phase(setpos.track_index, setpos.total_tracks)]
    /\ UNCHANGED <<old_vars, render, plan, sep, worker, files, reader, wheel>>

\* get_transition_recommendations for the phase of the set manager
RecommendTransition ==
    /\ setpos.pc = "phased"
    /\ setpos' = [setpos EXCEPT !.pc = "recommended",
                    !.rec = get_transition_recommendations(
                                setpos.phase, setpos.energy_a, setpos.energy_b,
                                setpos.harmonic, setpos.bpm_a, setpos.bpm_b)]
    /\ UNCHANGED <<old_vars, render, plan, sep, worker, files, reader, wheel>>

\* _get_llm_transition_plan: the context's position_in_set
DetermineSetPosition ==
    /\ setpos.pc = "recommended"
    /\ setpos' = [setpos EXCEPT !.pc = "positioned",
                    !.position = determine_set_position(setpos.track_index,
                                                        setpos.total_tracks)]
    /\ UNCHANGED <<old_vars, render, plan, sep, worker, files, reader, wheel>>

\* plan_transition without an LLM answer: the fallback plan, which is not given the context
FallbackPlanInSet ==
    /\ setpos.pc = "positioned"
    /\ setpos' = [setpos EXCEPT !.pc = "planned",
                    !.handed = _fallback_plan(setpos.harmonic, setpos.bpm_a, setpos.bpm_b)]
    /\ UNCHANGED <<old_vars, render, plan, sep, worker, files, reader, wheel>>

NextSet ==
    \/ ReceiveSetJob
    \/ DetermineSetPhase
    \/ RecommendTransition
    \/ DetermineSetPosition
    \/ FallbackPlanInSet

SpecSet == InitSet /\ [][NextSet]_vars

\* the phase the specification gives to progress = track_index / total_tracks
stated_phase(track_index, total_tracks) ==
    CASE 4 * track_index < total_tracks -> "WARMUP"
      [] 4 * track_index >= total_tracks /\ 2 * track_index < total_tracks -> "BUILD"
      [] 2 * track_index >= total_tracks /\ 4 * track_index < 3 * total_tracks -> "PEAK"
      [] OTHER -> "COOLDOWN"

\* C26 as stated: for 0 <= track_index < total_tracks the set phase used for
\* planning, the set manager's and the position given to the planner, is WARMUP,
\* BUILD, PEAK or COOLDOWN as track_index / total_tracks falls in [0, 0.25),
\* [0.25, 0.5), [0.5, 0.75) or [0.75, 1].
C26_PhaseByQuarters ==
    setpos.pc \in {"positioned", "planned"}
        => /\ setpos.phase = stated_phase(setpos.track_index, setpos.total_tracks)
           /\ setpos.position = stated_phase(setpos.track_index, setpos.total_tracks)

\* the quarters hold for determine_set_phase alone
C26_SetManagerByQuarters ==
    setpos.pc \in {"phased", "recommended", "positioned", "planned"}
        => setpos.phase = stated_phase(setpos.track_index, setpos.total_tracks)

\* C27 as stated: in the PEAK phase, when the incoming energy is more than 0.2
\* below the outgoing energy, the planned transition is HARD_CUT with 0 bars, also
\* for a compatible key and tempo.
C27_PeakEnergyDropHardCut ==
    (/\ setpos.pc = "planned"
     /\ setpos.phase = "PEAK"
     /\ setpos.energy_b < setpos.energy_a - 20)
        => /\ setpos.rec.suggested_type = "HARD_CUT" /\ setpos.rec.suggested_bars = 0
           /\ setpos.handed.type = "HARD_CUT" /\ setpos.handed.duration_bars = 0

----------------------------------------------------------------------------
\* C28 as stated: after an instant bass swap at sample s, B's bass is zero at
\* every sample before s and A's bass is zero at every sample from s onward.
C28_InstantSwapNoOverlap ==
    (bass.pc \in {"swapped", "validated", "done"} /\ bass.style = "instant")
        => /\ bass.amp_b * bass.amp_b * bass_b_energy(bass.swap, 0, bass.swap.swap_sample) = 0
           /\ bass.amp_a * bass.amp_a
                * bass_a_energy(bass.swap, bass.swap.swap_sample, bass.swap.len) = 0

----------------------------------------------------------------------------
\* C29 as stated: every TRANSITION segment that generate_mix_for_project renders
\* is rendered from exactly the two tracks named in its transition id, whichever
\* SOLO segments calculate_segments left out.
C29_RenderedFromNamedTracks ==
    mix.pc \in {"loop", "done"} =>
        \A k \in 1..Len(mix.out) :
            mix.reports[k].rendered
                => mix.out[k].transitionId = <<mix.reports[k].a, mix.reports[k].b>>

====
